---- MODULE Spec2Model ----
(***************************************************************************)
(* Verification model of the ESP32 security system.                        *)
(*                                                                         *)
(*   - the PIR motion driver            (components/pir_sensor/pir.c)      *)
(*   - the HC-SR04 ranging driver       (hcsr04.c)                         *)
(*   - the main hub's tasks and the mutex-guarded sensor_data snapshot     *)
(*     (main_hub main.c)                                                   *)
(*                                                                         *)
(* Times are microseconds of esp_timer_get_time().  Distances are kept in  *)
(* thousandths of a centimetre, so that pulse_width * 0.034 / 2.0 is the   *)
(* integer pulse_width * 34 / 2; the C code holds the same quantity as a   *)
(* single-precision float.                                                 *)
(***************************************************************************)
EXTENDS Integers, Sequences, FiniteSets, TLC

\* ------------------------------------------------------------------ bounds
\* cap of the microsecond clock in the PIR driver specification
MaxPirTime == 150000
\* number of hcsr04_read_distance calls explored
MaxHcCalls == 3
\* iterations of one wait loop that find the echo line unchanged and not timed out
MaxPolls == 2
\* number of dht11_read calls explored
MaxDhtCalls == 2
\* number of vTaskDelayUntil calls of the observed task explored
MaxWakes == 3
\* number of passes of the remote node's sensor_task explored
MaxRemoteCycles == 6
\* calls of dht11_read whose wait loops are followed poll by poll
MaxWaitCalls == 1

\* ------------------------------------------------------- program constants
PIR_DEBOUNCE_TIME_MS == 50
HCSR04_TIMEOUT_US == 30000

ESP_OK == "ESP_OK"
ESP_ERR_TIMEOUT == "ESP_ERR_TIMEOUT"
ESP_ERR_INVALID_ARG == "ESP_ERR_INVALID_ARG"
NULL == "NULL"

\* the raw level of a GPIO input is 0 or 1
Levels == {0, 1}

\* a driver handle passed by a caller: the NULL pointer or the sensor structure
Handles == {NULL, "sensor"}

\* ---------------------------------------------------------------- state
VARIABLES
    now,            \* esp_timer_get_time(): monotonic microsecond clock
    \* --- PIR driver
    pir,            \* pir_sensor_t: last_state, motion_count, debounce_ms, last_trigger_time
    pir_op,         \* the PIR operation performed last
    pir_level,      \* the raw level sampled by the last pir_read
    pir_ret,        \* the value returned by the last pir_read
    pir_got,        \* the value returned by the last pir_get_motion_count
    pir_prev_level, \* history: level sampled by the pir_read before the last one
    pir_counted_at, \* history: clock value of the last counted trigger, -1 if none
    \* --- HC-SR04 driver
    hc,             \* hcsr04_sensor_t: last_distance_cm, timeout_us
    hc_pc,          \* position inside hcsr04_read_distance ("idle" between calls)
    start_time,     \* local start_time of hcsr04_read_distance
    echo_start,     \* local echo_start
    echo_end,       \* local echo_end
    trig_trace,     \* levels written to the trigger pin by the current call
    hc_ret,         \* result of the last hcsr04_read_distance
    hc_got,         \* value returned by the last hcsr04_get_last_distance
    hc_op,          \* the HC-SR04 operation performed last
    echo_level,     \* the level of the echo pin sampled by the last poll
    hc_calls,       \* number of hcsr04_read_distance calls made so far
    polls,          \* iterations of the current wait loop so far
    hc_prior,       \* history: last_distance_cm when the current call was entered
    \* --- DHT11 driver
    dht,            \* dht11_sensor_t: last_temperature, last_humidity, last_read_time_us
    dht_pc,         \* position inside dht11_read ("idle" between calls)
    dht_i,          \* read_data_bits: loop counter i
    dht_data,       \* read_data_bits: data[5]
    dht_result,     \* result of the last dht11_read
    dht_phase,      \* history: the part of dht11_read that ended the last call
    dht_op,         \* the DHT11 operation performed last
    bus,            \* history: pin operations made by the current call, in order
    dht_frame,      \* the frame the sensor sends in answer to the current call
    dht_profile,    \* the pulse widths the sensor uses in the current call
    dht_in_range,   \* history: every pulse measured by the current call was nominal
    dht_entry,      \* cur_time of the last non-NULL call
    dht_calls,      \* number of dht11_read calls made so far
    dht_prior,      \* history: the structure when the current call was entered
    dht_success_at, \* history: clock value at the end of the last successful read, -1 if none
    dht_width,      \* history: the pulse width measured for the last bit
    dht_success_before, \* history: dht_success_at when the current call was entered
    dht_lost,       \* history: the wait of the current call that ran out of time
    \* --- main hub
    sensor_data,    \* the shared snapshot (without its mutex)
    mutex_free,     \* sensor_data.mutex: TRUE while the semaphore is available
    holds,          \* the tasks between a successful xSemaphoreTake and their xSemaphoreGive
    pc,             \* position of every hub task
    ultrasonic_sensor, \* the hub's hcsr04_sensor_t
    dht11_sensor,   \* the hub's dht11_sensor_t: last_temperature, last_humidity
    ble_conn_handle,\* connection handle kept by the GAP event handler
    ble_val,        \* value the GAP event handler is about to store in remote_connected
    motion,         \* pir_task: local motion
    us_ret,         \* ultrasonic_task: local ret
    distance,       \* ultrasonic_task: local distance
    dht_ret,        \* dht11_task: local ret
    dht_local,      \* dht11_task: locals temp and humidity
    lcd,            \* lcd_task: locals motion, remote_motion, distance, temp, humidity
    latest,         \* history: per field, the value most recently written to it
    unguarded,      \* history: accesses <<task, field>> made without holding the mutex
    lcd_copied,     \* history: fields copied by lcd_task in its current cycle
    us_good,        \* history: distance stored by the last successful read (0 if none)
    dht_good,       \* history: values stored by the last successful read (0, 0 if none)
    \* --- the schedule of one periodic task
    s_task,         \* the periodic task whose schedule is followed ("none": not chosen)
    tick,           \* xTaskGetTickCount(), in milliseconds
    last_wake,      \* the task's local last_wake
    uxPriority,     \* the priority each task was created with
    s_start,        \* history: last_wake as initialised before the loop
    s_k,            \* history: number of vTaskDelayUntil calls that have returned
    s_woke_at,      \* history: tick count at which the last vTaskDelayUntil returned
    s_overrun,      \* history: some vTaskDelayUntil was called at or after its wake time
    s_reads,        \* history: driver reads made since the last wake
    \* --- app_main of the hub
    boot_pc,        \* position of app_main ("done": returned after creating the tasks)
    boot_ret,       \* app_main: local ret
    created,        \* the tasks xTaskCreate has been called for
    started,        \* the created tasks that have entered their task function
    nvs_erased,     \* history: app_main erased the NVS partition
    boot_returned,  \* app_main has returned
    \* --- remote node
    motion_detected,\* static uint8_t motion_detected
    r_pc,           \* position of sensor_task
    r_cycles,       \* number of passes of sensor_task's loop so far
    r_op,           \* ctxt->op of the last motion_char_access
    r_om,           \* the bytes the last motion_char_access appended to ctxt->om
    r_rc,           \* the value the last motion_char_access returned
    r_adv,          \* the node is advertising
    r_conn,         \* a client is connected
    \* --- a wait loop of the DHT11 driver followed poll by poll
    wait_start,     \* local start_time (pulse_start) of the wait loop
    wait_polls,     \* iterations of the loop that found the level unchanged, not timed out
    \* --- dht11_task on the microsecond clock, from app_main on
    env_pc,         \* "app_main", "read" (before dht11_read), "delay" (before vTaskDelayUntil)
    env_last_wake,  \* dht11_task's last_wake (ms ticks)
    env_ret,        \* ret of the pass
    env_cycles,     \* passes completed
    env_prev,       \* history: ret of the pass before
    env_late,       \* history: ms by which the read of this pass started after the wake-up
    \* --- read_data_bits on the wire, with dht11_task preempted in its polling loops
    p_pc,           \* "idle", "wait_low", "wait_high", "measure", "check"
    p_i,            \* loop index i
    p_t,            \* us since read_data_bits was entered
    p_data,         \* data[5]
    p_frame,        \* the frame the sensor transmits
    p_ran,          \* higher-priority tasks that have run during this read
    p_ret,          \* ret of the last read_data_bits
    p_sensor,       \* the stored values of the sensor
    p_reads,        \* reads started
    \* --- ble_gap_event of the hub, observed
    gap_event,      \* history: the event of the last call of ble_gap_event
    gap_before,     \* history: connection handle and remote_connected when it was called
    \* --- app_main of the hub, observed
    boot_log,       \* history: the stores and initialisations app_main has made, in order
    boot_reads,     \* history: sensor tasks that have called their driver's read
    \* --- LCD driver: one lcd_write_byte call
    lw_pc,          \* "idle", "en_high", "en_low", "ret", "done"
    lw_mode,        \* the mode argument: 0 for a command, LCD_RS for data
    lw_nibble,      \* 1 for the high nibble, 2 for the low nibble
    lw_err,         \* err of lcd_pulse_enable
    lw_log,         \* history: results of the I2C transactions of this call, in order
    lw_ret,         \* the value lcd_write_byte returned
    \* --- ultrasonic test application
    t_pc,           \* "boot", "returned", "read", "update", "delay"
    led_state,      \* static bool led_state
    led_level,      \* the level last written to LED_PIN, -1 before the first write
    t_ret,          \* ret of the last hcsr04_read_distance
    t_distance,     \* distance_cm of the last successful reading
    t_last_value,   \* hcsr04_sensor_task_last_value
    led_prev        \* history: led_state when the current cycle began

pirVars == <<pir, pir_op, pir_level, pir_ret, pir_got, pir_prev_level, pir_counted_at>>
hcVars == <<hc, hc_pc, start_time, echo_start, echo_end, trig_trace, hc_ret, hc_got, hc_op,
           echo_level, hc_calls, polls, hc_prior>>
dhtVars == <<dht, dht_pc, dht_i, dht_data, dht_result, dht_phase, dht_op, bus, dht_frame,
            dht_profile, dht_in_range, dht_entry, dht_calls, dht_prior, dht_success_at,
            dht_width, dht_success_before, dht_lost>>
hubVars == <<sensor_data, mutex_free, holds, pc, ultrasonic_sensor, dht11_sensor,
            ble_conn_handle, ble_val, motion, us_ret, distance, dht_ret, dht_local, lcd,
            latest, unguarded, lcd_copied, us_good, dht_good>>
schedVars == <<s_task, tick, last_wake, uxPriority, s_start, s_k, s_woke_at, s_overrun,
              s_reads>>
bootVars == <<boot_pc, boot_ret, created, started, nvs_erased, boot_returned>>
remoteVars == <<motion_detected, r_pc, r_cycles, r_op, r_om, r_rc, r_adv, r_conn>>
waitVars == <<wait_start, wait_polls>>
envVars == <<env_pc, env_last_wake, env_ret, env_cycles, env_prev, env_late>>
preVars == <<p_pc, p_i, p_t, p_data, p_frame, p_ran, p_ret, p_sensor, p_reads>>
gapVars == <<gap_event, gap_before>>
startVars == <<boot_log, boot_reads>>
lcdIoVars == <<lw_pc, lw_mode, lw_nibble, lw_err, lw_log, lw_ret>>
ledVars == <<t_pc, led_state, led_level, t_ret, t_distance, t_last_value, led_prev>>
tailVars == <<lcdIoVars, ledVars>>
laterVars == <<preVars, gapVars, startVars, tailVars>>
otherVars == <<bootVars, remoteVars, waitVars, envVars, laterVars>>
vars == <<now, pirVars, hcVars, dhtVars, hubVars, schedVars, otherVars>>

\* ======================================================================
\* PIR motion driver
\* ======================================================================

\* pir_init: the structure after a successful initialisation
pir_init ==
    [last_state |-> FALSE,
     motion_count |-> 0,
     debounce_ms |-> PIR_DEBOUNCE_TIME_MS,
     last_trigger_time |-> 0]

\* C integer division truncates toward zero
CDiv(a, b) == IF a >= 0 THEN a \div b ELSE -((-a) \div b)

\* the debounce test of pir_read, mutated: every rising edge passes
DebounceElapsed_NoWindow(p, current_time) == TRUE

\* the debounce test of pir_read: time_diff_ms >= pir->debounce_ms
DebounceElapsed(p, current_time) ==
    CDiv(current_time - p.last_trigger_time, 1000) >= p.debounce_ms

\* rising edge test of pir_read: current_state && !pir->last_state
RisingEdge(p, current_state) == current_state /\ ~p.last_state

\* the structure after pir_read sampled current_state at current_time
\* (motion_count is a uint32_t; with one count per debounce window at most it
\* stays far below 2^32 within the clock cap, so the increment never wraps here)
pir_read_state(p, current_state, current_time) ==
    LET counted == RisingEdge(p, current_state) /\ DebounceElapsed(p, current_time)
    IN  [p EXCEPT !.motion_count = IF counted THEN @ + 1 ELSE @,
                  !.last_trigger_time = IF counted THEN current_time ELSE @,
                  !.last_state = current_state]

\* the value pir_read returns, mutated: the debounced event instead of the level
pir_read_ret_Debounced(p, current_state, current_time) ==
    RisingEdge(p, current_state) /\ DebounceElapsed(p, current_time)

\* the value pir_read returns
pir_read_ret(p, current_state, current_time) == current_state

\* clock advances between two PIR operations
PirAdvances == {10000, 40000, 49999}

\* pir_read(handle): samples the pin, then reads the clock
PirRead(h, level, d) ==
    /\ now + d <= MaxPirTime
    /\ now' = now + d
    /\ pir_op' = IF h = NULL THEN "read_null" ELSE "read"
    /\ IF h = NULL
       THEN /\ pir_ret' = FALSE
            /\ UNCHANGED <<pir, pir_level, pir_prev_level, pir_counted_at>>
       ELSE LET cur == (level = 1)
                new == pir_read_state(pir, cur, now')
            IN  /\ pir' = new
                /\ pir_level' = cur
                /\ pir_ret' = pir_read_ret(pir, cur, now')
                /\ pir_prev_level' = pir_level
                /\ pir_counted_at' =
                      IF new.motion_count # pir.motion_count THEN now' ELSE pir_counted_at
    /\ UNCHANGED <<pir_got, hcVars, dhtVars, hubVars, schedVars, otherVars>>

\* pir_get_motion_count
PirGetMotionCount(h) ==
    /\ pir_op' = IF h = NULL THEN "get_null" ELSE "get"
    /\ pir_got' = IF h = NULL THEN 0 ELSE pir.motion_count
    /\ UNCHANGED <<now, pir, pir_level, pir_ret, pir_prev_level, pir_counted_at, hcVars, dhtVars, hubVars, schedVars, otherVars>>

\* pir_reset_motion_count, mutated: the whole structure is set back to its state
\* after pir_init
PirResetMotionCount_Reinit(h) ==
    /\ pir_op' = IF h = NULL THEN "reset_null" ELSE "reset"
    /\ pir' = IF h = NULL THEN pir ELSE pir_init
    /\ UNCHANGED <<now, pir_level, pir_ret, pir_got, pir_prev_level, pir_counted_at, hcVars, dhtVars, hubVars, schedVars, otherVars>>

\* pir_reset_motion_count
PirResetMotionCount(h) ==
    /\ pir_op' = IF h = NULL THEN "reset_null" ELSE "reset"
    /\ pir' = IF h = NULL THEN pir ELSE [pir EXCEPT !.motion_count = 0]
    /\ UNCHANGED <<now, pir_level, pir_ret, pir_got, pir_prev_level, pir_counted_at, hcVars, dhtVars, hubVars, schedVars, otherVars>>

NextPir ==
    \/ \E h \in Handles, level \in Levels, d \in PirAdvances : PirRead(h, level, d)
    \/ \E h \in Handles : PirGetMotionCount(h)
    \/ \E h \in Handles : PirResetMotionCount(h)

\* ======================================================================
\* HC-SR04 ranging driver
\* ======================================================================

\* hcsr04_init: the structure after a successful initialisation
hcsr04_init(timeout) == [last_distance_cm |-> 0, timeout_us |-> timeout]

\* the conversion with the constant of the source comment, 0.0343 cm/us
DistanceCm_0343(pulse_width) == (pulse_width * 343) \div 20

\* (pulse_width * 0.034) / 2.0, in thousandths of a centimetre
DistanceCm(pulse_width) == (pulse_width * 34) \div 2

\* the bounded-wait test, mutated: one deadline for both loops, counted from the
\* start of the rise wait
TimedOut_Combined(sensor, since, t) == (t - start_time) > sensor.timeout_us

\* the bounded-wait test of both loops: (esp_timer_get_time() - since) > timeout_us
TimedOut(sensor, since, t) == (t - since) > sensor.timeout_us

\* the structure when a wait loop leaves with ESP_ERR_TIMEOUT, mutated: the stored
\* distance is cleared
hcsr04_on_timeout_Reset(sensor) == [sensor EXCEPT !.last_distance_cm = 0]

\* the structure when a wait loop leaves with ESP_ERR_TIMEOUT: nothing is stored
hcsr04_on_timeout(sensor) == sensor

\* the structure after the pulse from rise to fall has been converted
hcsr04_on_success(sensor, rise, fall) ==
    [sensor EXCEPT !.last_distance_cm = DistanceCm(fall - rise)]

\* clock advances between two reads of the clock inside the driver
HcAdvances == {1000, 30000}

\* the trigger pulse: low for 2 us, high for 10 us, low
TRIGGER_LOW_US == 2
TRIGGER_HIGH_US == 10

\* the caller's period: ultrasonic_task wakes every 200 ms
ULTRASONIC_PERIOD_MS == 200

\* hcsr04_read_distance, entry, mutated: the last gpio_set_level(trig, 0) is missing
HcReadCall_TriggerLeftHigh(h) ==
    /\ hc_pc = "idle"
    /\ hc_calls < MaxHcCalls
    /\ hc_calls' = hc_calls + 1
    /\ hc_op' = IF h = NULL THEN "read_null" ELSE "read"
    /\ polls' = 0
    /\ IF h = NULL
       THEN /\ hc_ret' = ESP_ERR_INVALID_ARG
            /\ UNCHANGED <<now, hc, hc_pc, start_time, echo_start, echo_end, trig_trace,
                           hc_prior>>
       ELSE /\ now' = hc_calls' * ULTRASONIC_PERIOD_MS * 1000
                        + TRIGGER_LOW_US + TRIGGER_HIGH_US
            /\ trig_trace' = <<0, 1>>
            /\ start_time' = now'
            /\ echo_start' = 0
            /\ echo_end' = 0
            /\ hc_pc' = "wait_rise"
            /\ hc_ret' = "running"
            /\ hc_prior' = hc.last_distance_cm
            /\ UNCHANGED hc
    /\ UNCHANGED <<hc_got, echo_level, pirVars, dhtVars, hubVars, schedVars, otherVars>>

\* hcsr04_read_distance, entry: NULL check, trigger pulse, start of the rise wait.
\* The k-th call is entered at the k-th wake of its periodic caller.
HcReadCall(h) ==
    /\ hc_pc = "idle"
    /\ hc_calls < MaxHcCalls
    /\ hc_calls' = hc_calls + 1
    /\ hc_op' = IF h = NULL THEN "read_null" ELSE "read"
    /\ polls' = 0
    /\ IF h = NULL
       THEN /\ hc_ret' = ESP_ERR_INVALID_ARG
            /\ UNCHANGED <<now, hc, hc_pc, start_time, echo_start, echo_end, trig_trace,
                           hc_prior>>
       ELSE /\ now' = hc_calls' * ULTRASONIC_PERIOD_MS * 1000
                        + TRIGGER_LOW_US + TRIGGER_HIGH_US
            /\ trig_trace' = <<0, 1, 0>>
            /\ start_time' = now'
            /\ echo_start' = 0
            /\ echo_end' = 0
            /\ hc_pc' = "wait_rise"
            /\ hc_ret' = "running"
            /\ hc_prior' = hc.last_distance_cm
            /\ UNCHANGED hc
    /\ UNCHANGED <<hc_got, echo_level, pirVars, dhtVars, hubVars, schedVars, otherVars>>

\* one iteration of `while (gpio_get_level(echo) == 0)`, and the statement after it
HcPollRise(level, d) ==
    /\ hc_pc = "wait_rise"
    /\ now' = now + d
    /\ echo_level' = level
    /\ IF level = 0
       THEN IF TimedOut(hc, start_time, now')
            THEN /\ hc' = hcsr04_on_timeout(hc)
                 /\ hc_ret' = ESP_ERR_TIMEOUT
                 /\ hc_pc' = "idle"
                 /\ polls' = 0
                 /\ UNCHANGED echo_start
            ELSE /\ polls < MaxPolls
                 /\ polls' = polls + 1
                 /\ UNCHANGED <<hc, hc_ret, hc_pc, echo_start>>
       ELSE /\ echo_start' = now'
            /\ hc_pc' = "wait_fall"
            /\ polls' = 0
            /\ UNCHANGED <<hc, hc_ret>>
    /\ UNCHANGED <<start_time, echo_end, trig_trace, hc_got, hc_op, hc_prior, hc_calls,
                   pirVars, dhtVars, hubVars, schedVars, otherVars>>

\* one iteration of `while (gpio_get_level(echo) == 1)`, and the statements after it
HcPollFall(level, d) ==
    /\ hc_pc = "wait_fall"
    /\ now' = now + d
    /\ echo_level' = level
    /\ IF level = 1
       THEN IF TimedOut(hc, echo_start, now')
            THEN /\ hc' = hcsr04_on_timeout(hc)
                 /\ hc_ret' = ESP_ERR_TIMEOUT
                 /\ hc_pc' = "idle"
                 /\ polls' = 0
                 /\ UNCHANGED echo_end
            ELSE /\ polls < MaxPolls
                 /\ polls' = polls + 1
                 /\ UNCHANGED <<hc, hc_ret, hc_pc, echo_end>>
       ELSE /\ echo_end' = now'
            /\ hc' = hcsr04_on_success(hc, echo_start, echo_end')
            /\ hc_ret' = ESP_OK
            /\ hc_pc' = "idle"
            /\ polls' = 0
    /\ UNCHANGED <<start_time, echo_start, trig_trace, hc_got, hc_op, hc_prior, hc_calls,
                   pirVars, dhtVars, hubVars, schedVars, otherVars>>

\* hcsr04_get_last_distance
HcGetLastDistance(h) ==
    /\ hc_pc = "idle"
    /\ hc_op' = IF h = NULL THEN "get_null" ELSE "get"
    /\ hc_got' = IF h = NULL THEN 0 ELSE hc.last_distance_cm
    /\ UNCHANGED <<now, hc, hc_pc, start_time, echo_start, echo_end, trig_trace, hc_ret,
                   echo_level, hc_prior, hc_calls, polls, pirVars, dhtVars, hubVars, schedVars, otherVars>>

NextHc ==
    \/ \E h \in Handles : HcReadCall(h)
    \/ \E level \in Levels, d \in HcAdvances : HcPollRise(level, d)
    \/ \E level \in Levels, d \in HcAdvances : HcPollFall(level, d)
    \/ \E h \in Handles : HcGetLastDistance(h)

\* ======================================================================
\* DHT11 environmental driver
\* ======================================================================

DHT11_MIN_READ_INTERVAL_MS == 2000
DHT11_START_SIGNAL_LOW_MS == 18
START_SIGNAL_HIGH_US == 30
DHT11_RESPONSE_TIMEOUT_US == 100
DHT11_BIT_TIMEOUT_US == 200
DHT11_BIT_THRESHOLD_US == 40
DATA_BITS == 40

ESP_ERR_INVALID_STATE == "ESP_ERR_INVALID_STATE"
ESP_ERR_INVALID_CRC == "ESP_ERR_INVALID_CRC"
ESP_FAIL == "ESP_FAIL"

\* dht11_init: the stored values after a successful initialisation
dht11_init == [last_temperature |-> 0, last_humidity |-> 0, last_read_time_us |-> 0]

\* the rate limit of dht11_read, mutated: a window of half the interval
RateLimited_HalfWindow(sensor, cur_time) ==
    (cur_time - sensor.last_read_time_us) < (DHT11_MIN_READ_INTERVAL_MS * 1000) \div 2

\* the rate limit of dht11_read:
\* (cur_time - sensor->last_read_time_us) < (DHT11_MIN_READ_INTERVAL_MS * 1000)
RateLimited(sensor, cur_time) ==
    (cur_time - sensor.last_read_time_us) < (DHT11_MIN_READ_INTERVAL_MS * 1000)

\* the pin operations of the start signal, in program order: direction output,
\* level 0, (18 ms), level 1, (30 us), direction input
StartSignal == <<"dir_output", "level_0", "level_1", "dir_input">>

\* the busy-wait delay that follows the k-th pin operation of the start signal
StartDelay(k) ==
    CASE k = 2 -> DHT11_START_SIGNAL_LOW_MS * 1000
      [] k = 3 -> START_SIGNAL_HIGH_US
      [] OTHER -> 0

\* time spent by the start signal when its first n pin operations were made
RECURSIVE StartElapsed(_)
StartElapsed(n) == IF n = 0 THEN 0 ELSE StartElapsed(n - 1) + StartDelay(n)

\* wait_for_level, mutated: the loop gives up without reporting it
wait_for_level_NoTimeout(seen, elapsed, timeout_us) == ESP_OK

\* wait_for_level, mutated: the loop has no test of the elapsed time
wait_for_level_NoDeadline(seen, elapsed, timeout_us) ==
    IF seen THEN ESP_OK ELSE "polling"

\* wait_for_level: the loop ends when a poll sees the level, or when a poll
\* that did not see it finds more than timeout_us elapsed
wait_for_level(seen, elapsed, timeout_us) ==
    IF seen THEN ESP_OK
    ELSE IF elapsed > timeout_us THEN ESP_ERR_TIMEOUT ELSE "polling"

\* measure_pulse_width: -1 when either of its loops runs out of time, else the
\* time between pulse_start and the poll that saw the level end
measure_pulse_width(seen_start, seen_end, width) ==
    IF seen_start /\ seen_end THEN width ELSE -1

\* bit p of the byte x
BitOf(x, p) == (x \div (2 ^ p)) % 2

\* x | (1 << p) on a uint8_t
OrBit(x, p) == IF BitOf(x, p) = 1 THEN x ELSE x + 2 ^ p

\* the value of a bit, decided with the 50 us of the header comment of read_data_bits
BitValue_50(pulse_width) == IF pulse_width > 50 THEN 1 ELSE 0

\* the value of a bit: 1 when pulse_width > DHT11_BIT_THRESHOLD_US
BitValue(pulse_width) == IF pulse_width > DHT11_BIT_THRESHOLD_US THEN 1 ELSE 0

\* the store of bit i: byte_index = i / 8, bit_position = 7 - (i % 8),
\* data[byte_index] |= (1 << bit_position) when the bit is 1
StoreBit(data, i, pulse_width) ==
    IF BitValue(pulse_width) = 1
    THEN [data EXCEPT ![(i \div 8) + 1] = OrBit(@, 7 - (i % 8))]
    ELSE data

\* uint8_t checksum = data[0] + data[1] + data[2] + data[3]
Checksum(data) == (data[1] + data[2] + data[3] + data[4]) % 256

\* read_data_bits after the 40 bits, mutated: the values are stored before the
\* checksum is tested
read_data_bits_end_StoreFirst(sensor, data) ==
    [ret |-> IF Checksum(data) # data[5] THEN ESP_ERR_INVALID_CRC ELSE ESP_OK,
     sensor |-> [sensor EXCEPT !.last_humidity = data[1], !.last_temperature = data[3]]]

\* read_data_bits after the 40 bits, mutated: the checksum is not tested
read_data_bits_end_NoCheck(sensor, data) ==
    [ret |-> ESP_OK,
     sensor |-> [sensor EXCEPT !.last_humidity = data[1], !.last_temperature = data[3]]]

\* read_data_bits after the 40 bits, mutated: the fractional bytes are stored
read_data_bits_end_Fraction(sensor, data) ==
    IF Checksum(data) # data[5]
    THEN [ret |-> ESP_ERR_INVALID_CRC, sensor |-> sensor]
    ELSE [ret |-> ESP_OK,
          sensor |-> [sensor EXCEPT !.last_humidity = data[2],
                                    !.last_temperature = data[4]]]

\* read_data_bits after the 40 bits: checksum test, then the two stores
read_data_bits_end(sensor, data) ==
    IF Checksum(data) # data[5]
    THEN [ret |-> ESP_ERR_INVALID_CRC, sensor |-> sensor]
    ELSE [ret |-> ESP_OK,
          sensor |-> [sensor EXCEPT !.last_humidity = data[1],
                                    !.last_temperature = data[3]]]

\* the end of dht11_read: a failure of read_data_bits is returned as it is, a
\* success records sensor->last_read_time_us = esp_timer_get_time()
dht11_read_end(sensor, ret, t) ==
    IF ret # ESP_OK THEN sensor ELSE [sensor EXCEPT !.last_read_time_us = t]

\* --- the sensor on the other end of the data line

\* frames the DHT11 sends: the 40 %RH / 23 C example, a frame with fractional
\* bytes whose sum wraps at 256, and a frame whose checksum byte is wrong
DhtFrames == {<<40, 0, 23, 0, 63>>, <<200, 100, 50, 10, 104>>, <<40, 0, 23, 0, 64>>}

\* bit i of a frame on the wire: bytes in order, most significant bit first
FrameBit(frame, i) == BitOf(frame[(i \div 8) + 1], 7 - (i % 8))

\* high times (us) the driver measures for a 0 bit and for a 1 bit: the nominal
\* 26..28 / 70 us of the DHT11, the two sides of the threshold, and a 0 bit
\* stretched beyond it
PulseProfiles == {"nominal", "nominal_long", "edge", "stretched"}
PulseWidth(profile, b) ==
    CASE profile = "nominal" -> IF b = 0 THEN 26 ELSE 70
      [] profile = "nominal_long" -> IF b = 0 THEN 28 ELSE 70
      [] profile = "edge" -> IF b = 0 THEN 40 ELSE 41
      [] profile = "stretched" -> IF b = 0 THEN 45 ELSE 70

\* the nominal high times of the DHT11 protocol
InRange(b, width) == IF b = 0 THEN width \in 26..28 ELSE width = 70

\* time until the line shows the level a wait is looking for
LineDelay(phase, i) ==
    CASE phase = "ack_low" -> 20
      [] phase = "ack_high" -> 80
      [] phase = "bit_low" -> IF i = 0 THEN 80 ELSE 0
      [] phase = "bit_high" -> 50
      [] OTHER -> 0

\* the caller: periods between two calls of dht11_read (the hub's dht11_task and
\* the manual test wake every 3000 ms) and waits counted from the last success
DhtPeriods == {500000, 3000000}
DhtOffsets == {1999999, 2000000}
DhtCallTimes ==
    {dht_entry + p : p \in DhtPeriods}
        \cup {dht.last_read_time_us + o : o \in DhtOffsets}

\* what a call leaves behind when it returns ret: the locals of read_data_bits
\* are gone
DhtReturn(ret, phase) ==
    /\ dht_result' = ret
    /\ dht_phase' = phase
    /\ dht_pc' = "idle"
    /\ dht_i' = 0
    /\ dht_data' = <<0, 0, 0, 0, 0>>

\* dht11_read, entry: NULL check, rate limit, start signal.  gpio_fail = k means
\* that the k-th pin operation of the start signal returned an error (0: none)
DhtReadCall(h, t, frame, profile, gpio_fail) ==
    /\ dht_pc = "idle"
    /\ dht_calls < MaxDhtCalls
    /\ t \in DhtCallTimes
    /\ t >= now
    /\ dht_calls' = dht_calls + 1
    /\ dht_op' = IF h = NULL THEN "read_null" ELSE "read"
    /\ dht_prior' = dht
    /\ dht_width' = 0
    /\ dht_success_before' = dht_success_at
    /\ dht_lost' = "none"
    /\ UNCHANGED <<dht, dht_success_at>>
    /\ IF h = NULL
       THEN /\ DhtReturn(ESP_ERR_INVALID_ARG, "entry")
            /\ bus' = <<>>
            /\ UNCHANGED <<now, dht_entry, dht_frame, dht_profile, dht_in_range>>
       ELSE /\ dht_entry' = t
            /\ IF RateLimited(dht, t)
               THEN /\ now' = t
                    /\ DhtReturn(ESP_ERR_INVALID_STATE, "rate_limit")
                    /\ bus' = <<>>
                    /\ UNCHANGED <<dht_frame, dht_profile, dht_in_range>>
               ELSE IF gpio_fail # 0
               THEN /\ now' = t + StartElapsed(gpio_fail - 1)
                    /\ DhtReturn(ESP_FAIL, "start")
                    /\ bus' = SubSeq(StartSignal, 1, gpio_fail - 1)
                    /\ UNCHANGED <<dht_frame, dht_profile, dht_in_range>>
               ELSE /\ now' = t + StartElapsed(Len(StartSignal))
                    /\ bus' = StartSignal
                    /\ dht_frame' = frame
                    /\ dht_profile' = profile
                    /\ dht_in_range' = TRUE
                    /\ dht_result' = "running"
                    /\ dht_phase' = "ack_low"
                    /\ dht_pc' = "ack_low"
                    /\ dht_i' = 0
                    /\ dht_data' = <<0, 0, 0, 0, 0>>
    /\ UNCHANGED <<pirVars, hcVars, hubVars, schedVars, otherVars>>

\* ret = wait_for_level(pin, 0, DHT11_RESPONSE_TIMEOUT_US) in dht11_read
DhtAckLow(seen) ==
    /\ dht_pc = "ack_low"
    /\ LET elapsed == IF seen THEN LineDelay("ack_low", 0)
                              ELSE DHT11_RESPONSE_TIMEOUT_US + 1
           ret == wait_for_level(seen, elapsed, DHT11_RESPONSE_TIMEOUT_US)
       IN  /\ now' = now + elapsed
           /\ IF ret = ESP_OK
              THEN /\ dht_pc' = "ack_high"
                   /\ UNCHANGED <<dht_result, dht_phase, dht_i, dht_data>>
              ELSE DhtReturn(ret, "ack_low")
    /\ dht_lost' = IF seen THEN dht_lost ELSE "ack_low"
    /\ UNCHANGED <<dht, bus, dht_frame, dht_profile, dht_in_range, dht_entry, dht_calls,
                   dht_op, dht_prior, dht_success_at, dht_width, dht_success_before,
                   pirVars, hcVars, hubVars, schedVars, otherVars>>

\* ret = wait_for_level(pin, 1, DHT11_RESPONSE_TIMEOUT_US) in dht11_read
DhtAckHigh(seen) ==
    /\ dht_pc = "ack_high"
    /\ LET elapsed == IF seen THEN LineDelay("ack_high", 0)
                              ELSE DHT11_RESPONSE_TIMEOUT_US + 1
           ret == wait_for_level(seen, elapsed, DHT11_RESPONSE_TIMEOUT_US)
       IN  /\ now' = now + elapsed
           /\ IF ret = ESP_OK
              THEN /\ dht_pc' = "bits"
                   /\ UNCHANGED <<dht_result, dht_phase, dht_i, dht_data>>
              ELSE DhtReturn(ret, "ack_high")
    /\ dht_lost' = IF seen THEN dht_lost ELSE "ack_high"
    /\ UNCHANGED <<dht, bus, dht_frame, dht_profile, dht_in_range, dht_entry, dht_calls,
                   dht_op, dht_prior, dht_success_at, dht_width, dht_success_before,
                   pirVars, hcVars, hubVars, schedVars, otherVars>>

\* one iteration of the for loop of read_data_bits: wait for low, wait for high,
\* measure the high pulse, store the bit.  `lost` names the wait that ran out of
\* time ("none": the bit was read)
DhtBit(lost) ==
    /\ dht_pc = "bits"
    /\ dht_i < DATA_BITS
    /\ LET b == FrameBit(dht_frame, dht_i)
           width == PulseWidth(dht_profile, b)
           low_t == IF lost = "bit_low" THEN DHT11_BIT_TIMEOUT_US + 1
                                        ELSE LineDelay("bit_low", dht_i)
           low == wait_for_level(lost # "bit_low", low_t, DHT11_BIT_TIMEOUT_US)
           high_t == IF lost = "bit_high" THEN DHT11_BIT_TIMEOUT_US + 1
                                          ELSE LineDelay("bit_high", dht_i)
           high == wait_for_level(lost # "bit_high", high_t, DHT11_BIT_TIMEOUT_US)
           pulse_width == measure_pulse_width(lost # "pulse_start", lost # "pulse_end", width)
           pulse_t == IF pulse_width < 0 THEN DHT11_BIT_TIMEOUT_US + 1 ELSE pulse_width
       IN  IF low # ESP_OK
           THEN /\ now' = now + low_t
                /\ DhtReturn(ESP_ERR_TIMEOUT, "bit_low")
                /\ dht' = dht11_read_end(dht, ESP_ERR_TIMEOUT, now')
                /\ UNCHANGED <<dht_width, dht_in_range>>
           ELSE IF high # ESP_OK
           THEN /\ now' = now + low_t + high_t
                /\ DhtReturn(ESP_ERR_TIMEOUT, "bit_high")
                /\ dht' = dht11_read_end(dht, ESP_ERR_TIMEOUT, now')
                /\ UNCHANGED <<dht_width, dht_in_range>>
           ELSE IF pulse_width < 0
           THEN /\ now' = now + low_t + high_t + pulse_t
                /\ DhtReturn(ESP_ERR_TIMEOUT, "measure")
                /\ dht' = dht11_read_end(dht, ESP_ERR_TIMEOUT, now')
                /\ UNCHANGED <<dht_width, dht_in_range>>
           ELSE /\ now' = now + low_t + high_t + pulse_t
                /\ dht_data' = StoreBit(dht_data, dht_i, pulse_width)
                /\ dht_i' = dht_i + 1
                /\ dht_width' = pulse_width
                /\ dht_in_range' = (dht_in_range /\ InRange(b, pulse_width))
                /\ UNCHANGED <<dht, dht_pc, dht_result, dht_phase>>
    /\ dht_lost' = IF lost = "none" THEN dht_lost ELSE lost
    /\ UNCHANGED <<bus, dht_frame, dht_profile, dht_entry, dht_calls, dht_op, dht_prior,
                   dht_success_at, dht_success_before, pirVars, hcVars, hubVars, schedVars, otherVars>>

\* read_data_bits after the loop, and the end of dht11_read
DhtReadEnd ==
    /\ dht_pc = "bits"
    /\ dht_i = DATA_BITS
    /\ LET r == read_data_bits_end(dht, dht_data)
       IN  /\ dht' = dht11_read_end(r.sensor, r.ret, now)
           /\ dht_result' = r.ret
           /\ dht_success_at' = IF r.ret = ESP_OK THEN now ELSE dht_success_at
    /\ dht_phase' = "checksum"
    /\ dht_pc' = "idle"
    /\ UNCHANGED <<now, dht_i, dht_data, bus, dht_frame, dht_profile, dht_in_range,
                   dht_entry, dht_calls, dht_op, dht_prior, dht_width, dht_success_before,
                   dht_lost, pirVars, hcVars, hubVars, schedVars, otherVars>>

NextDht ==
    \/ \E h \in Handles, t \in DhtCallTimes, frame \in DhtFrames,
          profile \in PulseProfiles, gpio_fail \in 0..Len(StartSignal) :
          DhtReadCall(h, t, frame, profile, gpio_fail)
    \/ \E seen \in BOOLEAN : DhtAckLow(seen)
    \/ \E seen \in BOOLEAN : DhtAckHigh(seen)
    \/ \E lost \in {"none", "bit_low", "bit_high", "pulse_start", "pulse_end"} : DhtBit(lost)
    \/ DhtReadEnd

\* --- the wait loops of the DHT11 driver on a line that stops changing

\* clock advances between two polls of a wait loop
DhtPollAdvances == {100}

\* the waits of one dht11_read: the two acknowledgement waits, and for every
\* bit wait_for_level(0), wait_for_level(1) and the two loops of
\* measure_pulse_width
AckWaits == {"ack_low", "ack_high"}
BitWaits == {"bit_low", "bit_high", "pulse_start", "pulse_end"}

\* the timeout a wait is called with
WaitTimeout(wait) ==
    IF wait \in AckWaits THEN DHT11_RESPONSE_TIMEOUT_US ELSE DHT11_BIT_TIMEOUT_US

\* time the waits of bit i that precede `wait` have taken
TimeBefore(wait, i) ==
    CASE wait = "bit_high" -> LineDelay("bit_low", i)
      [] wait \in {"pulse_start", "pulse_end"} ->
            LineDelay("bit_low", i) + LineDelay("bit_high", i)
      [] OTHER -> 0

\* the part of dht11_read a timeout of `wait` is returned from
PhaseOf(wait) == IF wait \in {"pulse_start", "pulse_end"} THEN "measure" ELSE wait

\* the line stays at the level `wait` is not looking for: the loop is entered
\* and its start_time is taken
DhtLineStuck(wait) ==
    /\ \/ wait \in AckWaits /\ dht_pc = wait
       \/ wait \in BitWaits /\ dht_pc = "bits" /\ dht_i < DATA_BITS
    /\ now' = now + TimeBefore(wait, dht_i)
    /\ wait_start' = now'
    /\ wait_polls' = 0
    /\ dht_pc' = "stuck"
    /\ dht_lost' = wait
    /\ UNCHANGED <<dht, dht_i, dht_data, dht_result, dht_phase, dht_op, bus, dht_frame,
                   dht_profile, dht_in_range, dht_entry, dht_calls, dht_prior,
                   dht_success_at, dht_width, dht_success_before>>
    /\ UNCHANGED <<pirVars, hcVars, hubVars, schedVars, bootVars, remoteVars, envVars, laterVars>>

\* one iteration of a wait loop that does not see its level:
\* if ((esp_timer_get_time() - start_time) > timeout_us) return the timeout, which
\* read_data_bits and dht11_read pass on
DhtPollStuck(d) ==
    /\ dht_pc = "stuck"
    /\ now' = now + d
    /\ LET ret == wait_for_level(FALSE, now' - wait_start, WaitTimeout(dht_lost))
       IN  IF ret = "polling"
           THEN /\ wait_polls < MaxPolls
                /\ wait_polls' = wait_polls + 1
                /\ UNCHANGED <<dht, dht_pc, dht_i, dht_data, dht_result, dht_phase,
                               wait_start>>
           ELSE /\ DhtReturn(ret, PhaseOf(dht_lost))
                /\ dht' = dht11_read_end(dht, ret, now')
                /\ wait_polls' = 0
                /\ wait_start' = 0
    /\ UNCHANGED <<dht_op, bus, dht_frame, dht_profile, dht_in_range, dht_entry, dht_calls,
                   dht_prior, dht_success_at, dht_width, dht_success_before, dht_lost>>
    /\ UNCHANGED <<pirVars, hcVars, hubVars, schedVars, bootVars, remoteVars, envVars, laterVars>>

\* the steps by which a call of hcsr04_read_distance or of dht11_read that has
\* been entered goes on
WaitStep ==
    \/ \E level \in Levels, d \in HcAdvances : HcPollRise(level, d)
    \/ \E level \in Levels, d \in HcAdvances : HcPollFall(level, d)
    \/ DhtAckLow(TRUE)
    \/ DhtAckHigh(TRUE)
    \/ DhtBit("none")
    \/ DhtReadEnd
    \/ \E d \in DhtPollAdvances : DhtPollStuck(d)

\* calls of the two drivers with their wait loops followed poll by poll; one
\* behaviour follows the calls of one driver
NextWaits ==
    \/ \E h \in Handles : dht_calls = 0 /\ HcReadCall(h)
    \/ \E level \in Levels, d \in HcAdvances : HcPollRise(level, d)
    \/ \E level \in Levels, d \in HcAdvances : HcPollFall(level, d)
    \/ \E h \in Handles, t \in DhtCallTimes, frame \in DhtFrames,
          profile \in PulseProfiles, gpio_fail \in 0..Len(StartSignal) :
          hc_calls = 0 /\ dht_calls < MaxWaitCalls
             /\ DhtReadCall(h, t, frame, profile, gpio_fail)
    \/ DhtAckLow(TRUE)
    \/ DhtAckHigh(TRUE)
    \/ DhtBit("none")
    \/ DhtReadEnd
    \/ \E wait \in AckWaits \cup BitWaits : DhtLineStuck(wait)
    \/ \E d \in DhtPollAdvances : DhtPollStuck(d)

\* ======================================================================
\* main hub: the tasks of main.c and the snapshot they share
\* ======================================================================

Tasks == {"pir", "us", "dht", "lcd", "ble"}

\* the fields of sensor_data other than the mutex
Fields == {"motion_detected", "distance_cm", "temperature", "humidity",
           "remote_motion_detected", "remote_connected"}

\* app_main: the defaults stored before any task exists
sensor_data_init ==
    [motion_detected |-> FALSE, distance_cm |-> 0, temperature |-> 0, humidity |-> 0,
     remote_motion_detected |-> FALSE, remote_connected |-> FALSE]

\* lcd_task: the display variables before the loop
lcd_locals_init ==
    [motion |-> FALSE, remote_motion |-> FALSE, distance |-> 0, temp |-> 0, humidity |-> 0]

BLE_HS_CONN_HANDLE_NONE == 65535

\* echo pulse widths (us) the hub's ranging reads can measure
HubPulseWidths == {1000}

\* 5-byte frames the hub's environmental reads can decode: two with a matching
\* checksum, one whose checksum byte is wrong
HubFrames == {<<40, 0, 23, 0, 63>>, <<41, 5, 24, 3, 73>>, <<40, 0, 23, 0, 64>>}

\* connection handles the BLE stack can report
ConnHandles == {0}

\* GAP events delivered to ble_gap_event: type, connect status, connection handle
GapEvents ==
    [type : {"DISC", "CONNECT", "DISCONNECT", "OTHER"}, status : {0, 1},
     conn_handle : ConnHandles]

\* xSemaphoreTake(sensor_data.mutex, portMAX_DELAY): blocks until the mutex is free
xSemaphoreTake(t) ==
    /\ mutex_free
    /\ mutex_free' = FALSE
    /\ holds' = holds \cup {t}

\* xSemaphoreGive(sensor_data.mutex)
xSemaphoreGive(t) ==
    /\ mutex_free' = TRUE
    /\ holds' = holds \ {t}

\* a store of v into sensor_data.f by task t, mutated: the task writes back a whole
\* structure built from the start-up defaults
Store_WholeStruct(t, f, v) ==
    /\ sensor_data' = [sensor_data_init EXCEPT ![f] = v]
    /\ latest' = [latest EXCEPT ![f] = v]
    /\ unguarded' = IF t \in holds THEN unguarded ELSE unguarded \cup {<<t, f>>}

\* a store of v into sensor_data.f by task t
Store(t, f, v) ==
    /\ sensor_data' = [sensor_data EXCEPT ![f] = v]
    /\ latest' = [latest EXCEPT ![f] = v]
    /\ unguarded' = IF t \in holds THEN unguarded ELSE unguarded \cup {<<t, f>>}

\* a load of sensor_data.f into lcd_task's local l
Load(t, f, l) ==
    /\ lcd' = [lcd EXCEPT ![l] = sensor_data[f]]
    /\ lcd_copied' = lcd_copied \cup {f}
    /\ unguarded' = IF t \in holds THEN unguarded ELSE unguarded \cup {<<t, f>>}

Goto(t, label) == pc' = [pc EXCEPT ![t] = label]

\* where a producer continues when its read returned an error, mutated: it
\* reads again at once
AfterFailedRead_Retry(t) == IF t = "us" THEN "us_read" ELSE "dht_read"

\* where a producer continues when its read returned an error: the block under
\* `if (ret == ESP_OK)` is skipped and vTaskDelayUntil is called
AfterFailedRead(t) == IF t = "us" THEN "us_delay" ELSE "dht_delay"

\* ---------------------------------------------------------------- pir_task

\* motion = pir_read(&pir_sensor): the call samples the pin and returns the level
\* (the driver's own structure is the subject of SpecPir)
PirTaskRead(level) ==
    /\ pc["pir"] = "pir_read"
    /\ motion' = pir_read_ret(pir, level = 1, now)
    /\ Goto("pir", "pir_take")
    /\ UNCHANGED <<now, pirVars, hcVars, dhtVars, sensor_data, mutex_free, holds,
                   ultrasonic_sensor, dht11_sensor, ble_conn_handle, ble_val, us_ret,
                   distance, dht_ret, dht_local, lcd, latest, unguarded, lcd_copied,
                   us_good, dht_good>>

\* xSemaphoreTake in pir_task, mutated: the task does not take the lock
PirTaskTake_NoLock ==
    /\ pc["pir"] = "pir_take"
    /\ Goto("pir", "pir_write")
    /\ UNCHANGED <<now, pirVars, hcVars, dhtVars, sensor_data, mutex_free, holds,
                   ultrasonic_sensor, dht11_sensor, ble_conn_handle, ble_val, motion,
                   us_ret, distance, dht_ret, dht_local, lcd, latest, unguarded,
                   lcd_copied, us_good, dht_good>>

\* xSemaphoreTake in pir_task
PirTaskTake ==
    /\ pc["pir"] = "pir_take"
    /\ xSemaphoreTake("pir")
    /\ Goto("pir", "pir_write")
    /\ UNCHANGED <<now, pirVars, hcVars, dhtVars, sensor_data, ultrasonic_sensor, dht11_sensor,
                   ble_conn_handle, ble_val, motion, us_ret, distance, dht_ret,
                   dht_local, lcd, latest, unguarded, lcd_copied, us_good, dht_good>>

\* sensor_data.motion_detected = motion
PirTaskWrite ==
    /\ pc["pir"] = "pir_write"
    /\ Store("pir", "motion_detected", motion)
    /\ Goto("pir", "pir_give")
    /\ UNCHANGED <<now, pirVars, hcVars, dhtVars, mutex_free, holds, ultrasonic_sensor,
                   dht11_sensor, ble_conn_handle, ble_val, motion, us_ret, distance,
                   dht_ret, dht_local, lcd, lcd_copied, us_good, dht_good>>

\* xSemaphoreGive in pir_task, mutated: the lock is kept
PirTaskGive_KeepLock ==
    /\ pc["pir"] = "pir_give"
    /\ Goto("pir", "pir_delay")
    /\ UNCHANGED <<now, pirVars, hcVars, dhtVars, sensor_data, mutex_free, holds,
                   ultrasonic_sensor, dht11_sensor, ble_conn_handle, ble_val, motion,
                   us_ret, distance, dht_ret, dht_local, lcd, latest, unguarded,
                   lcd_copied, us_good, dht_good>>

\* xSemaphoreGive in pir_task
PirTaskGive ==
    /\ pc["pir"] = "pir_give"
    /\ xSemaphoreGive("pir")
    /\ Goto("pir", "pir_delay")
    /\ UNCHANGED <<now, pirVars, hcVars, dhtVars, sensor_data, ultrasonic_sensor, dht11_sensor,
                   ble_conn_handle, ble_val, motion, us_ret, distance, dht_ret,
                   dht_local, lcd, latest, unguarded, lcd_copied, us_good, dht_good>>

\* vTaskDelayUntil(&last_wake, 100 ms) returns; the loop body, which declares motion, ends
PirTaskWake ==
    /\ pc["pir"] = "pir_delay"
    /\ motion' = FALSE
    /\ Goto("pir", "pir_read")
    /\ UNCHANGED <<now, pirVars, hcVars, dhtVars, sensor_data, mutex_free, holds,
                   ultrasonic_sensor, dht11_sensor, ble_conn_handle, ble_val, us_ret,
                   distance, dht_ret, dht_local, lcd, latest, unguarded, lcd_copied,
                   us_good, dht_good>>

\* ---------------------------------------------------------- ultrasonic_task

\* ret = hcsr04_read_distance(&ultrasonic_sensor); if (ret == ESP_OK) distance =
\* hcsr04_get_last_distance(&ultrasonic_sensor).  The call returns from its rise wait
\* or its fall wait with a timeout, or stores the distance of the measured pulse
\* (its wait loops are the subject of SpecHc)
UsTaskRead(outcome, pulse_width) ==
    /\ pc["us"] = "us_read"
    /\ IF outcome = "timeout"
       THEN /\ ultrasonic_sensor' = hcsr04_on_timeout(ultrasonic_sensor)
            /\ us_ret' = ESP_ERR_TIMEOUT
            /\ Goto("us", AfterFailedRead("us"))
            /\ UNCHANGED <<us_good, distance>>
       ELSE /\ ultrasonic_sensor' = hcsr04_on_success(ultrasonic_sensor, 0, pulse_width)
            /\ us_ret' = ESP_OK
            /\ us_good' = ultrasonic_sensor'.last_distance_cm
            /\ distance' = ultrasonic_sensor'.last_distance_cm
            /\ Goto("us", "us_take")
    /\ UNCHANGED <<now, pirVars, hcVars, dhtVars, sensor_data, mutex_free, holds, dht11_sensor,
                   ble_conn_handle, ble_val, motion, dht_ret, dht_local, lcd, latest,
                   unguarded, lcd_copied, dht_good>>

\* xSemaphoreTake in ultrasonic_task
UsTaskTake ==
    /\ pc["us"] = "us_take"
    /\ xSemaphoreTake("us")
    /\ Goto("us", "us_write")
    /\ UNCHANGED <<now, pirVars, hcVars, dhtVars, sensor_data, ultrasonic_sensor, dht11_sensor,
                   ble_conn_handle, ble_val, motion, us_ret, distance, dht_ret,
                   dht_local, lcd, latest, unguarded, lcd_copied, us_good, dht_good>>

\* sensor_data.distance_cm = distance
UsTaskWrite ==
    /\ pc["us"] = "us_write"
    /\ Store("us", "distance_cm", distance)
    /\ Goto("us", "us_give")
    /\ UNCHANGED <<now, pirVars, hcVars, dhtVars, mutex_free, holds, ultrasonic_sensor,
                   dht11_sensor, ble_conn_handle, ble_val, motion, us_ret, distance,
                   dht_ret, dht_local, lcd, lcd_copied, us_good, dht_good>>

\* xSemaphoreGive in ultrasonic_task, mutated: the task goes on to its delay with
\* the mutex still taken
UsTaskGive_KeepLock ==
    /\ pc["us"] = "us_give"
    /\ UNCHANGED <<mutex_free, holds>>
    /\ distance' = 0
    /\ Goto("us", "us_delay")
    /\ UNCHANGED <<now, pirVars, hcVars, dhtVars, sensor_data, ultrasonic_sensor, dht11_sensor,
                   ble_conn_handle, ble_val, motion, us_ret, dht_ret, dht_local, lcd,
                   latest, unguarded, lcd_copied, us_good, dht_good>>

\* xSemaphoreGive in ultrasonic_task; the block that declares distance ends
UsTaskGive ==
    /\ pc["us"] = "us_give"
    /\ xSemaphoreGive("us")
    /\ distance' = 0
    /\ Goto("us", "us_delay")
    /\ UNCHANGED <<now, pirVars, hcVars, dhtVars, sensor_data, ultrasonic_sensor, dht11_sensor,
                   ble_conn_handle, ble_val, motion, us_ret, dht_ret, dht_local, lcd,
                   latest, unguarded, lcd_copied, us_good, dht_good>>

\* vTaskDelayUntil(&last_wake, 200 ms) returns; the loop body, which declares ret, ends
UsTaskWake ==
    /\ pc["us"] = "us_delay"
    /\ us_ret' = "none"
    /\ Goto("us", "us_read")
    /\ UNCHANGED <<now, pirVars, hcVars, dhtVars, sensor_data, mutex_free, holds,
                   ultrasonic_sensor, dht11_sensor, ble_conn_handle, ble_val, motion,
                   distance, dht_ret, dht_local, lcd, latest, unguarded, lcd_copied,
                   us_good, dht_good>>

\* --------------------------------------------------------------- dht11_task

\* ret = dht11_read(&dht11_sensor); if (ret == ESP_OK) { temp = dht11_get_temperature(..);
\* humidity = dht11_get_humidity(..) }.  The call is rejected by the rate limit,
\* fails in a GPIO call of the start signal, times out in one of its waits, or
\* decodes the frame data and ends in read_data_bits
DhtTaskRead(outcome, data) ==
    /\ pc["dht"] = "dht_read"
    /\ IF outcome = "decoded"
       THEN LET r == read_data_bits_end(dht11_sensor, data)
            IN  /\ dht_ret' = r.ret
                /\ dht11_sensor' = dht11_read_end(r.sensor, r.ret, now)
                /\ IF r.ret = ESP_OK
                   THEN /\ dht_good' = [temperature |-> r.sensor.last_temperature,
                                        humidity |-> r.sensor.last_humidity]
                        /\ dht_local' = [temp |-> r.sensor.last_temperature,
                                         humidity |-> r.sensor.last_humidity]
                        /\ Goto("dht", "dht_take")
                   ELSE /\ Goto("dht", AfterFailedRead("dht"))
                        /\ UNCHANGED <<dht_good, dht_local>>
       ELSE /\ dht_ret' = CASE outcome = "too_soon" -> ESP_ERR_INVALID_STATE
                            [] outcome = "gpio" -> ESP_FAIL
                            [] OTHER -> ESP_ERR_TIMEOUT
            /\ Goto("dht", AfterFailedRead("dht"))
            /\ UNCHANGED <<dht11_sensor, dht_good, dht_local>>
    /\ UNCHANGED <<now, pirVars, hcVars, dhtVars, sensor_data, mutex_free, holds,
                   ultrasonic_sensor, ble_conn_handle, ble_val, motion, us_ret,
                   distance, lcd, latest, unguarded, lcd_copied, us_good>>

\* xSemaphoreTake in dht11_task
DhtTaskTake ==
    /\ pc["dht"] = "dht_take"
    /\ xSemaphoreTake("dht")
    /\ Goto("dht", "dht_write_temp")
    /\ UNCHANGED <<now, pirVars, hcVars, dhtVars, sensor_data, ultrasonic_sensor, dht11_sensor,
                   ble_conn_handle, ble_val, motion, us_ret, distance, dht_ret,
                   dht_local, lcd, latest, unguarded, lcd_copied, us_good, dht_good>>

\* sensor_data.temperature = temp, mutated: the mutex is given back between the
\* two stores
DhtTaskWriteTemp_GiveBetween ==
    /\ pc["dht"] = "dht_write_temp"
    /\ sensor_data' = [sensor_data EXCEPT !.temperature = dht_local.temp]
    /\ latest' = [latest EXCEPT !.temperature = dht_local.temp]
    /\ xSemaphoreGive("dht")
    /\ Goto("dht", "dht_write_hum")
    /\ UNCHANGED <<now, pirVars, hcVars, dhtVars, unguarded, ultrasonic_sensor,
                   dht11_sensor, ble_conn_handle, ble_val, motion, us_ret, distance,
                   dht_ret, dht_local, lcd, lcd_copied, us_good, dht_good>>

\* sensor_data.temperature = temp
DhtTaskWriteTemp ==
    /\ pc["dht"] = "dht_write_temp"
    /\ Store("dht", "temperature", dht_local.temp)
    /\ Goto("dht", "dht_write_hum")
    /\ UNCHANGED <<now, pirVars, hcVars, dhtVars, mutex_free, holds, ultrasonic_sensor,
                   dht11_sensor, ble_conn_handle, ble_val, motion, us_ret, distance,
                   dht_ret, dht_local, lcd, lcd_copied, us_good, dht_good>>

\* sensor_data.humidity = humidity
DhtTaskWriteHum ==
    /\ pc["dht"] = "dht_write_hum"
    /\ Store("dht", "humidity", dht_local.humidity)
    /\ Goto("dht", "dht_give")
    /\ UNCHANGED <<now, pirVars, hcVars, dhtVars, mutex_free, holds, ultrasonic_sensor,
                   dht11_sensor, ble_conn_handle, ble_val, motion, us_ret, distance,
                   dht_ret, dht_local, lcd, lcd_copied, us_good, dht_good>>

\* xSemaphoreGive in dht11_task; the block that declares temp and humidity ends
DhtTaskGive ==
    /\ pc["dht"] = "dht_give"
    /\ xSemaphoreGive("dht")
    /\ dht_local' = [temp |-> 0, humidity |-> 0]
    /\ Goto("dht", "dht_delay")
    /\ UNCHANGED <<now, pirVars, hcVars, dhtVars, sensor_data, ultrasonic_sensor, dht11_sensor,
                   ble_conn_handle, ble_val, motion, us_ret, distance, dht_ret, lcd,
                   latest, unguarded, lcd_copied, us_good, dht_good>>

\* vTaskDelayUntil(&last_wake, 3000 ms) returns; the loop body, which declares ret, ends
DhtTaskWake ==
    /\ pc["dht"] = "dht_delay"
    /\ dht_ret' = "none"
    /\ Goto("dht", "dht_read")
    /\ UNCHANGED <<now, pirVars, hcVars, dhtVars, sensor_data, mutex_free, holds,
                   ultrasonic_sensor, dht11_sensor, ble_conn_handle, ble_val, motion,
                   us_ret, distance, dht_local, lcd, latest, unguarded, lcd_copied,
                   us_good, dht_good>>

\* ----------------------------------------------------------------- lcd_task

\* xSemaphoreTake in lcd_task
LcdTaskTake ==
    /\ pc["lcd"] = "lcd_take"
    /\ xSemaphoreTake("lcd")
    /\ Goto("lcd", "lcd_copy_motion")
    /\ UNCHANGED <<now, pirVars, hcVars, dhtVars, sensor_data, ultrasonic_sensor, dht11_sensor,
                   ble_conn_handle, ble_val, motion, us_ret, distance, dht_ret,
                   dht_local, lcd, latest, unguarded, lcd_copied, us_good, dht_good>>

\* motion = sensor_data.motion_detected
LcdTaskCopyMotion ==
    /\ pc["lcd"] = "lcd_copy_motion"
    /\ Load("lcd", "motion_detected", "motion")
    /\ Goto("lcd", "lcd_copy_remote")
    /\ UNCHANGED <<now, pirVars, hcVars, dhtVars, sensor_data, mutex_free, holds,
                   ultrasonic_sensor, dht11_sensor, ble_conn_handle, ble_val, motion,
                   us_ret, distance, dht_ret, dht_local, latest, us_good, dht_good>>

\* remote_motion = sensor_data.remote_motion_detected
LcdTaskCopyRemote ==
    /\ pc["lcd"] = "lcd_copy_remote"
    /\ Load("lcd", "remote_motion_detected", "remote_motion")
    /\ Goto("lcd", "lcd_copy_distance")
    /\ UNCHANGED <<now, pirVars, hcVars, dhtVars, sensor_data, mutex_free, holds,
                   ultrasonic_sensor, dht11_sensor, ble_conn_handle, ble_val, motion,
                   us_ret, distance, dht_ret, dht_local, latest, us_good, dht_good>>

\* distance = sensor_data.distance_cm
LcdTaskCopyDistance ==
    /\ pc["lcd"] = "lcd_copy_distance"
    /\ Load("lcd", "distance_cm", "distance")
    /\ Goto("lcd", "lcd_copy_temp")
    /\ UNCHANGED <<now, pirVars, hcVars, dhtVars, sensor_data, mutex_free, holds,
                   ultrasonic_sensor, dht11_sensor, ble_conn_handle, ble_val, motion,
                   us_ret, distance, dht_ret, dht_local, latest, us_good, dht_good>>

\* temp = sensor_data.temperature
LcdTaskCopyTemp ==
    /\ pc["lcd"] = "lcd_copy_temp"
    /\ Load("lcd", "temperature", "temp")
    /\ Goto("lcd", "lcd_copy_hum")
    /\ UNCHANGED <<now, pirVars, hcVars, dhtVars, sensor_data, mutex_free, holds,
                   ultrasonic_sensor, dht11_sensor, ble_conn_handle, ble_val, motion,
                   us_ret, distance, dht_ret, dht_local, latest, us_good, dht_good>>

\* humidity = sensor_data.humidity, mutated: the copy is missing
LcdTaskCopyHum_Skip ==
    /\ pc["lcd"] = "lcd_copy_hum"
    /\ Goto("lcd", "lcd_give")
    /\ UNCHANGED <<now, pirVars, hcVars, dhtVars, sensor_data, mutex_free, holds,
                   ultrasonic_sensor, dht11_sensor, ble_conn_handle, ble_val, motion,
                   us_ret, distance, dht_ret, dht_local, lcd, latest, unguarded,
                   lcd_copied, us_good, dht_good>>

\* humidity = sensor_data.humidity
LcdTaskCopyHum ==
    /\ pc["lcd"] = "lcd_copy_hum"
    /\ Load("lcd", "humidity", "humidity")
    /\ Goto("lcd", "lcd_give")
    /\ UNCHANGED <<now, pirVars, hcVars, dhtVars, sensor_data, mutex_free, holds,
                   ultrasonic_sensor, dht11_sensor, ble_conn_handle, ble_val, motion,
                   us_ret, distance, dht_ret, dht_local, latest, us_good, dht_good>>

\* xSemaphoreGive in lcd_task
LcdTaskGive ==
    /\ pc["lcd"] = "lcd_give"
    /\ xSemaphoreGive("lcd")
    /\ Goto("lcd", "lcd_io")
    /\ UNCHANGED <<now, pirVars, hcVars, dhtVars, sensor_data, ultrasonic_sensor, dht11_sensor,
                   ble_conn_handle, ble_val, motion, us_ret, distance, dht_ret,
                   dht_local, lcd, latest, unguarded, lcd_copied, us_good, dht_good>>

\* lcd_clear, lcd_set_cursor and lcd_printf of the two lines.  The display variables
\* are not read again before the next cycle overwrites them: they carry no value on
LcdTaskDisplay ==
    /\ pc["lcd"] = "lcd_io"
    /\ lcd' = lcd_locals_init
    /\ Goto("lcd", "lcd_delay")
    /\ UNCHANGED <<now, pirVars, hcVars, dhtVars, sensor_data, mutex_free, holds,
                   ultrasonic_sensor, dht11_sensor, ble_conn_handle, ble_val, motion,
                   us_ret, distance, dht_ret, dht_local, latest, unguarded, lcd_copied,
                   us_good, dht_good>>

\* vTaskDelayUntil(&last_wake, 1000 ms) returns
LcdTaskWake ==
    /\ pc["lcd"] = "lcd_delay"
    /\ lcd_copied' = {}
    /\ Goto("lcd", "lcd_take")
    /\ UNCHANGED <<now, pirVars, hcVars, dhtVars, sensor_data, mutex_free, holds,
                   ultrasonic_sensor, dht11_sensor, ble_conn_handle, ble_val, motion,
                   us_ret, distance, dht_ret, dht_local, lcd, latest, unguarded,
                   us_good, dht_good>>

\* ------------------------------------------------------------ ble_gap_event

\* ble_gap_event, mutated: the status of a CONNECT event is not looked at
BleGapEvent_AnyConnect(event) ==
    /\ pc["ble"] = "ble_idle"
    /\ IF event.type = "CONNECT"
       THEN /\ ble_conn_handle' = event.conn_handle
            /\ ble_val' = TRUE
            /\ Goto("ble", "ble_take")
       ELSE IF event.type = "DISCONNECT"
       THEN /\ ble_conn_handle' = BLE_HS_CONN_HANDLE_NONE
            /\ ble_val' = FALSE
            /\ Goto("ble", "ble_take")
       ELSE UNCHANGED <<ble_conn_handle, ble_val, pc>>
    /\ UNCHANGED <<now, pirVars, hcVars, dhtVars, sensor_data, mutex_free, holds,
                   ultrasonic_sensor, dht11_sensor, motion, us_ret, distance, dht_ret,
                   dht_local, lcd, latest, unguarded, lcd_copied, us_good, dht_good>>

\* ble_gap_event, up to its xSemaphoreTake: the switch on the event type
BleGapEvent(event) ==
    /\ pc["ble"] = "ble_idle"
    /\ IF event.type = "CONNECT" /\ event.status = 0
       THEN /\ ble_conn_handle' = event.conn_handle
            /\ ble_val' = TRUE
            /\ Goto("ble", "ble_take")
       ELSE IF event.type = "DISCONNECT"
       THEN /\ ble_conn_handle' = BLE_HS_CONN_HANDLE_NONE
            /\ ble_val' = FALSE
            /\ Goto("ble", "ble_take")
       ELSE UNCHANGED <<ble_conn_handle, ble_val, pc>>
    /\ UNCHANGED <<now, pirVars, hcVars, dhtVars, sensor_data, mutex_free, holds,
                   ultrasonic_sensor, dht11_sensor, motion, us_ret, distance, dht_ret,
                   dht_local, lcd, latest, unguarded, lcd_copied, us_good, dht_good>>

\* xSemaphoreTake in ble_gap_event
BleTake ==
    /\ pc["ble"] = "ble_take"
    /\ xSemaphoreTake("ble")
    /\ Goto("ble", "ble_write")
    /\ UNCHANGED <<now, pirVars, hcVars, dhtVars, sensor_data, ultrasonic_sensor, dht11_sensor,
                   ble_conn_handle, ble_val, motion, us_ret, distance, dht_ret,
                   dht_local, lcd, latest, unguarded, lcd_copied, us_good, dht_good>>

\* sensor_data.remote_connected = true / false, mutated: the handler also clears the
\* local motion flag
BleWrite_Foreign ==
    /\ pc["ble"] = "ble_write"
    /\ Store("ble", "motion_detected", FALSE)
    /\ Goto("ble", "ble_give")
    /\ UNCHANGED <<now, pirVars, hcVars, dhtVars, mutex_free, holds, ultrasonic_sensor,
                   dht11_sensor, ble_conn_handle, ble_val, motion, us_ret, distance,
                   dht_ret, dht_local, lcd, lcd_copied, us_good, dht_good>>

\* sensor_data.remote_connected = true / false
BleWrite ==
    /\ pc["ble"] = "ble_write"
    /\ Store("ble", "remote_connected", ble_val)
    /\ Goto("ble", "ble_give")
    /\ UNCHANGED <<now, pirVars, hcVars, dhtVars, mutex_free, holds, ultrasonic_sensor,
                   dht11_sensor, ble_conn_handle, ble_val, motion, us_ret, distance,
                   dht_ret, dht_local, lcd, lcd_copied, us_good, dht_good>>

\* xSemaphoreGive in ble_gap_event, and return 0
BleGive ==
    /\ pc["ble"] = "ble_give"
    /\ xSemaphoreGive("ble")
    /\ Goto("ble", "ble_idle")
    /\ UNCHANGED <<now, pirVars, hcVars, dhtVars, sensor_data, ultrasonic_sensor, dht11_sensor,
                   ble_conn_handle, ble_val, motion, us_ret, distance, dht_ret,
                   dht_local, lcd, latest, unguarded, lcd_copied, us_good, dht_good>>

\* a call of ble_gap_event, remembered with what it found
BleObserved(event) ==
    /\ BleGapEvent(event)
    /\ gap_event' = event
    /\ gap_before' = <<ble_conn_handle, sensor_data.remote_connected>>
    /\ UNCHANGED <<schedVars, bootVars, remoteVars, waitVars, envVars, preVars, startVars, tailVars>>

\* a step of the hub that is not followed on the tick count
Untimed(A) == A /\ UNCHANGED <<schedVars, otherVars>>

Next ==
    \/ \E level \in Levels : Untimed(PirTaskRead(level))
    \/ Untimed(PirTaskTake)
    \/ Untimed(PirTaskWrite)
    \/ Untimed(PirTaskGive)
    \/ Untimed(PirTaskWake)
    \/ \E outcome \in {"timeout", "measured"}, w \in HubPulseWidths : Untimed(UsTaskRead(outcome, w))
    \/ Untimed(UsTaskTake)
    \/ Untimed(UsTaskWrite)
    \/ Untimed(UsTaskGive)
    \/ Untimed(UsTaskWake)
    \/ \E outcome \in {"too_soon", "gpio", "timeout", "decoded"}, data \in HubFrames :
          Untimed(DhtTaskRead(outcome, data))
    \/ Untimed(DhtTaskTake)
    \/ Untimed(DhtTaskWriteTemp)
    \/ Untimed(DhtTaskWriteHum)
    \/ Untimed(DhtTaskGive)
    \/ Untimed(DhtTaskWake)
    \/ Untimed(LcdTaskTake)
    \/ Untimed(LcdTaskCopyMotion)
    \/ Untimed(LcdTaskCopyRemote)
    \/ Untimed(LcdTaskCopyDistance)
    \/ Untimed(LcdTaskCopyTemp)
    \/ Untimed(LcdTaskCopyHum)
    \/ Untimed(LcdTaskGive)
    \/ Untimed(LcdTaskDisplay)
    \/ Untimed(LcdTaskWake)
    \/ \E event \in GapEvents : Untimed(BleGapEvent(event))
    \/ Untimed(BleTake)
    \/ Untimed(BleWrite)
    \/ Untimed(BleGive)

\* ======================================================================
\* the schedule of the periodic tasks
\* ======================================================================
\* Each of pir_task, ultrasonic_task, dht11_task and lcd_task sets
\* last_wake = xTaskGetTickCount() and then ends every pass of its loop with
\* vTaskDelayUntil(&last_wake, pdMS_TO_TICKS(period)).  The steps of one task
\* are followed on the tick count, which is kept in milliseconds
\* (pdMS_TO_TICKS only rescales it); the other tasks, the mutex wait and
\* preemption appear as the time a step takes.

PIR_PERIOD_MS == 100
DHT11_PERIOD_MS == 3000
LCD_PERIOD_MS == 1000

PeriodicTasks == {"pir", "us", "dht", "lcd"}
Producers == {"pir", "us", "dht"}

\* the period lcd_task passes to vTaskDelayUntil, mutated: 5000 ms
TaskPeriodMs_SlowDisplay(t) ==
    CASE t = "pir" -> PIR_PERIOD_MS
      [] t = "us" -> ULTRASONIC_PERIOD_MS
      [] t = "dht" -> DHT11_PERIOD_MS
      [] t = "lcd" -> 5 * LCD_PERIOD_MS

\* the period each task passes to vTaskDelayUntil
TaskPeriodMs(t) ==
    CASE t = "pir" -> PIR_PERIOD_MS
      [] t = "us" -> ULTRASONIC_PERIOD_MS
      [] t = "dht" -> DHT11_PERIOD_MS
      [] t = "lcd" -> LCD_PERIOD_MS

\* the uxPriority argument of the xTaskCreate calls of app_main
TaskPriority(t) ==
    CASE t = "pir" -> 5
      [] t = "us" -> 4
      [] t = "dht" -> 3
      [] t = "ble" -> 3
      [] t = "lcd" -> 2

\* tick counts at which a task can run xTaskGetTickCount() before its loop
SchedStartTicks == {0, 7}

\* time (ms) that passes until a step of task t has been made
StepTimes(t) == IF t \in PeriodicTasks THEN {0, TaskPeriodMs(t) \div 4} ELSE {}

\* vTaskDelay in place of vTaskDelayUntil: the wake time is counted from the
\* tick count of the call
vTaskDelayUntil_Relative(pxPreviousWakeTime, xTimeIncrement, xTickCount) ==
    [last_wake |-> xTickCount + xTimeIncrement,
     blocked |-> TRUE,
     wake |-> xTickCount + xTimeIncrement]

\* vTaskDelayUntil(&last_wake, xTimeIncrement) called at xTickCount: the wake time
\* is *pxPreviousWakeTime + xTimeIncrement, which is stored back; the task
\* blocks until then if that time is still ahead, and returns at once if not
vTaskDelayUntil(pxPreviousWakeTime, xTimeIncrement, xTickCount) ==
    LET xTimeToWake == pxPreviousWakeTime + xTimeIncrement
    IN  [last_wake |-> xTimeToWake,
         blocked |-> xTickCount < xTimeToWake,
         wake |-> IF xTickCount < xTimeToWake THEN xTimeToWake ELSE xTickCount]

\* the label at which task t calls its driver, and the one at which it calls
\* vTaskDelayUntil
ReadLabel(t) ==
    CASE t = "pir" -> "pir_read" [] t = "us" -> "us_read" [] t = "dht" -> "dht_read"
      [] OTHER -> "none"
DelayLabel(t) ==
    CASE t = "pir" -> "pir_delay" [] t = "us" -> "us_delay" [] t = "dht" -> "dht_delay"
      [] t = "lcd" -> "lcd_delay" [] OTHER -> "none"

\* the read of the current pass of task t returned an error
ReadFailed(t) ==
    \/ t = "us" /\ us_ret \notin {ESP_OK, "none"}
    \/ t = "dht" /\ dht_ret \notin {ESP_OK, "none"}

\* the steps of task t, by kind
HubRead(t) ==
    \/ t = "pir" /\ \E level \in Levels : PirTaskRead(level)
    \/ t = "us" /\ \E outcome \in {"timeout", "measured"}, w \in HubPulseWidths :
                      UsTaskRead(outcome, w)
    \/ t = "dht" /\ \E outcome \in {"too_soon", "gpio", "timeout", "decoded"},
                       data \in HubFrames : DhtTaskRead(outcome, data)
HubBody(t) ==
    \/ t = "pir" /\ (PirTaskTake \/ PirTaskWrite \/ PirTaskGive)
    \/ t = "us" /\ (UsTaskTake \/ UsTaskWrite \/ UsTaskGive)
    \/ t = "dht" /\ (DhtTaskTake \/ DhtTaskWriteTemp \/ DhtTaskWriteHum \/ DhtTaskGive)
    \/ t = "lcd" /\ (\/ LcdTaskTake \/ LcdTaskCopyMotion \/ LcdTaskCopyRemote
                     \/ LcdTaskCopyDistance \/ LcdTaskCopyTemp \/ LcdTaskCopyHum
                     \/ LcdTaskGive \/ LcdTaskDisplay)
HubWake(t) ==
    \/ t = "pir" /\ PirTaskWake
    \/ t = "us" /\ UsTaskWake
    \/ t = "dht" /\ DhtTaskWake
    \/ t = "lcd" /\ LcdTaskWake

\* TickType_t last_wake = xTaskGetTickCount(), before the loop of task t
SchedStart(t, t0) ==
    /\ s_task = "none"
    /\ s_task' = t
    /\ tick' = t0
    /\ last_wake' = t0
    /\ s_start' = t0
    /\ s_woke_at' = t0
    /\ UNCHANGED <<uxPriority, s_k, s_overrun, s_reads>>
    /\ UNCHANGED <<now, pirVars, hcVars, dhtVars, hubVars, otherVars>>

\* the task calls its driver's read
SchedRead(e) ==
    /\ s_task \in Producers
    /\ HubRead(s_task)
    /\ tick' = tick + e
    /\ s_reads' = s_reads + 1
    /\ UNCHANGED <<s_task, last_wake, uxPriority, s_start, s_k, s_woke_at, s_overrun>>
    /\ UNCHANGED otherVars

\* the task makes a step between its read and its vTaskDelayUntil
SchedBody(e) ==
    /\ s_task \in PeriodicTasks
    /\ HubBody(s_task)
    /\ tick' = tick + e
    /\ UNCHANGED <<s_task, last_wake, uxPriority, s_start, s_k, s_woke_at, s_overrun,
                   s_reads>>
    /\ UNCHANGED otherVars

\* the task calls vTaskDelayUntil(&last_wake, period) and the call returns
SchedDelayUntil ==
    /\ s_task \in PeriodicTasks
    /\ s_k < MaxWakes
    /\ HubWake(s_task)
    /\ LET r == vTaskDelayUntil(last_wake, TaskPeriodMs(s_task), tick)
       IN  /\ last_wake' = r.last_wake
           /\ tick' = r.wake
           /\ s_woke_at' = r.wake
           /\ s_overrun' = (s_overrun \/ ~r.blocked)
    /\ s_k' = s_k + 1
    /\ s_reads' = 0
    /\ UNCHANGED <<s_task, uxPriority, s_start>>
    /\ UNCHANGED otherVars

NextSched ==
    \/ \E t \in PeriodicTasks, t0 \in SchedStartTicks : SchedStart(t, t0)
    \/ \E e \in StepTimes(s_task) : SchedRead(e)
    \/ \E e \in StepTimes(s_task) : SchedBody(e)
    \/ SchedDelayUntil

\* ======================================================================
\* main hub: dht11_task against the rate limit of dht11_read
\* ======================================================================

\* ms by which a vTaskDelay ends early: the delay is counted in ticks from a
\* call made inside a tick
TickJitterMs == {0, 10}

\* lcd_init: vTaskDelay(pdMS_TO_TICKS(50)) after power-up, before app_main shows
\* the start-up message
LcdInitWaitMs(jitter) == 50 - jitter

\* app_main, mutated: the start-up message is not held on the display
StartupWaitMs_None(jitter) == 0

\* app_main: vTaskDelay(pdMS_TO_TICKS(2000)) after the start-up message
StartupWaitMs(jitter) == 2000 - jitter

\* the longest one pass of ultrasonic_task keeps the processor: the trigger pulse
\* and both echo waits of hcsr04_read_distance running to HCSR04_TIMEOUT_US
\* (pir_task's pass is a GPIO read and two stores)
RangingBusyMs == (2 * HCSR04_TIMEOUT_US) \div 1000 + 1

\* ms between dht11_task's wake-up and its call of dht11_read
StartDelaysMs == {0, RangingBusyMs}

\* ms a dht11_read that reaches the bus takes: 18 ms start signal and 40 bits,
\* undisturbed or with one pass of the ranging task in between
ReadTimesMs == {23, 23 + RangingBusyMs}

\* results of a dht11_read that reached the bus
BusResults == {ESP_OK, ESP_ERR_TIMEOUT, ESP_ERR_INVALID_CRC}

\* app_main up to xTaskCreate(dht11_task): lcd_init, the start-up message and its
\* wait, dht11_init; dht11_task starts and takes last_wake = xTaskGetTickCount()
EnvAppMain(j1, j2) ==
    /\ env_pc = "app_main"
    /\ now' = now + (LcdInitWaitMs(j1) + StartupWaitMs(j2)) * 1000
    /\ dht11_sensor' = dht11_init
    /\ env_last_wake' = now' \div 1000
    /\ env_pc' = "read"
    /\ UNCHANGED <<env_ret, env_cycles, env_prev, env_late>>
    /\ UNCHANGED <<pirVars, hcVars, dhtVars, schedVars, bootVars, remoteVars, waitVars, laterVars>>
    /\ UNCHANGED <<sensor_data, mutex_free, holds, pc, ultrasonic_sensor, ble_conn_handle,
                   ble_val, motion, us_ret, distance, dht_ret, dht_local, lcd, latest,
                   unguarded, lcd_copied, us_good, dht_good>>

\* ret = dht11_read(&dht11_sensor), called `late` ms after the wake-up: rejected by
\* the rate limit, or carried out on the bus in `took` ms with result `result`
EnvRead(late, took, result) ==
    /\ env_pc = "read"
    /\ env_cycles < MaxWakes
    /\ LET cur_time == now + late * 1000
       IN  IF RateLimited(dht11_sensor, cur_time)
           THEN /\ env_ret' = ESP_ERR_INVALID_STATE
                /\ now' = cur_time
                /\ UNCHANGED dht11_sensor
           ELSE /\ env_ret' = result
                /\ now' = cur_time + took * 1000
                /\ dht11_sensor' = dht11_read_end(dht11_sensor, result, now')
    /\ env_late' = late
    /\ env_pc' = "delay"
    /\ UNCHANGED <<env_last_wake, env_cycles, env_prev>>
    /\ UNCHANGED <<pirVars, hcVars, dhtVars, schedVars, bootVars, remoteVars, waitVars, laterVars>>
    /\ UNCHANGED <<sensor_data, mutex_free, holds, pc, ultrasonic_sensor, ble_conn_handle,
                   ble_val, motion, us_ret, distance, dht_ret, dht_local, lcd, latest,
                   unguarded, lcd_copied, us_good, dht_good>>

\* vTaskDelayUntil(&last_wake, pdMS_TO_TICKS(3000)) returns
EnvDelayUntil ==
    /\ env_pc = "delay"
    /\ LET r == vTaskDelayUntil(env_last_wake, TaskPeriodMs("dht"), now \div 1000)
       IN  /\ env_last_wake' = r.last_wake
           /\ now' = IF r.blocked THEN r.wake * 1000 ELSE now
    /\ env_prev' = env_ret
    /\ env_ret' = "none"
    /\ env_late' = 0
    /\ env_cycles' = env_cycles + 1
    /\ env_pc' = "read"
    /\ UNCHANGED <<pirVars, hcVars, dhtVars, hubVars, schedVars, bootVars, remoteVars,
                   waitVars, laterVars>>

NextEnv ==
    \/ \E j1, j2 \in TickJitterMs : EnvAppMain(j1, j2)
    \/ \E late \in StartDelaysMs, took \in ReadTimesMs, result \in BusResults :
          EnvRead(late, took, result)
    \/ EnvDelayUntil

\* ======================================================================
\* main hub: read_data_bits while pir_task and ultrasonic_task preempt dht11_task
\* ======================================================================

\* frames on the wire: those of the hub's reads whose checksum byte is right
WireFrames == {f \in HubFrames : Checksum(f) = f[5]}

\* the times (us after read_data_bits is entered, which is when the sensor's
\* 80 us response-high begins) at which the line changes level: it falls at
\* the start of every bit, rises 50 us later, stays high for the bit's pulse;
\* after bit 39 it falls once more and is released 50 us later
RECURSIVE WireEdges(_, _, _)
WireEdges(frame, j, t) ==
    IF j = DATA_BITS
    THEN <<t, t + LineDelay("bit_high", j)>>
    ELSE <<t, t + LineDelay("bit_high", j)>>
            \o WireEdges(frame, j + 1,
                         t + LineDelay("bit_high", j) + PulseWidth("nominal", FrameBit(frame, j)))
Wire == [f \in WireFrames |-> WireEdges(f, 0, LineDelay("bit_low", 0))]

\* gpio_get_level(sensor->pin) at time t: high before the first edge, and the
\* level changes at every edge
EdgesPassed(f, t) == Cardinality({k \in DOMAIN Wire[f] : Wire[f][k] <= t})
LevelAfter(n) == IF n % 2 = 0 THEN 1 ELSE 0

\* the time of the edge after the first n; after the last edge the line stays
\* high
EdgeAfter(f, n) ==
    IF n < Len(Wire[f]) THEN Wire[f][n + 1]
    ELSE Wire[f][Len(Wire[f])] + 1000 * DHT11_BIT_TIMEOUT_US

\* while (gpio_get_level(pin) != level) { if (now - start > timeout_us) return
\* timeout; } polled from time t on with start time s: a poll that sees the
\* level ends the loop whatever the time; one that does not tests the time
PollLoop(f, t, s, level, timeout_us) ==
    LET n == EdgesPassed(f, t)
    IN  IF LevelAfter(n) = level
        THEN [ret |-> ESP_OK, t |-> t]
        ELSE IF EdgeAfter(f, n) - s > timeout_us + 1
             THEN [ret |-> ESP_ERR_TIMEOUT,
                   t |-> IF t > s + timeout_us + 1 THEN t ELSE s + timeout_us + 1]
             ELSE [ret |-> ESP_OK, t |-> EdgeAfter(f, n)]

\* the higher-priority tasks (app_main creates pir_task with priority 5 and
\* ultrasonic_task with priority 4, dht11_task with 3)
Preemptors == {t \in Producers : TaskPriority(t) > TaskPriority("dht")}

\* the nearest object the HC-SR04 reports (cm), and the echo pulse (us) it answers
\* with: distance = (pulse_width * 0.034) / 2.0
MIN_RANGE_CM == 2
EchoPulseUs(cm) == (2 * cm * 1000) \div 34

\* us one pass of a preempting task keeps the processor: pir_task reads a pin
\* and stores one field; ultrasonic_task sends the 12 us trigger pulse and
\* times an echo, the shortest one at least, or runs into the echo timeout
PassTimes(task) ==
    IF task = "pir" THEN {45}
    ELSE {12 + EchoPulseUs(MIN_RANGE_CM), HCSR04_TIMEOUT_US}

\* us into a polling loop at which the preemption begins
PreemptOffsets == {0, 40}

NoPreempt == [task |-> "none", at |-> 0, dur |-> 0]
Preemptions ==
    {NoPreempt} \cup
    UNION {[task : {task}, at : PreemptOffsets, dur : PassTimes(task)] : task \in Preemptors}

\* the preemption falls into the loop that starts at p_t and waits for `level`:
\* the task has not run during this read, and the loop is still polling when
\* it begins
PreemptFits(pre, level) ==
    \/ pre = NoPreempt
    \/ /\ pre.task \notin p_ran
       /\ LET n == EdgesPassed(p_frame, p_t)
          IN  LevelAfter(n) # level /\ EdgeAfter(p_frame, n) > p_t + pre.at
       /\ pre.at <= DHT11_BIT_TIMEOUT_US

\* one polling loop of read_data_bits entered at p_t, dht11_task not running
\* from p_t + at for dur us
PreemptedLoop(pre, level) ==
    PollLoop(p_frame,
             IF pre = NoPreempt THEN p_t ELSE p_t + pre.at + pre.dur,
             p_t, level, DHT11_BIT_TIMEOUT_US)

Ran(pre) == IF pre = NoPreempt THEN p_ran ELSE p_ran \cup {pre.task}

\* read_data_bits returns ESP_ERR_TIMEOUT
PreTimeout ==
    /\ p_ret' = ESP_ERR_TIMEOUT
    /\ p_pc' = "idle"
    /\ p_i' = 0
    /\ p_data' = <<0, 0, 0, 0, 0>>
    /\ UNCHANGED <<p_sensor, p_frame, p_reads>>

PreUnchanged ==
    UNCHANGED <<now, pirVars, hcVars, dhtVars, hubVars, schedVars, bootVars, remoteVars,
                waitVars, envVars, gapVars, startVars, tailVars>>

\* read_data_bits is entered while the sensor sends `frame`
PreStart(frame) ==
    /\ p_pc = "idle"
    /\ p_reads < MaxWaitCalls
    /\ p_reads' = p_reads + 1
    /\ p_frame' = frame
    /\ p_pc' = "wait_low"
    /\ p_i' = 0
    /\ p_t' = 0
    /\ p_data' = <<0, 0, 0, 0, 0>>
    /\ p_ran' = {}
    /\ p_ret' = "running"
    /\ UNCHANGED p_sensor
    /\ PreUnchanged

\* wait_for_level(sensor->pin, 0, DHT11_BIT_TIMEOUT_US)
PreWaitLow(pre) ==
    /\ p_pc = "wait_low"
    /\ PreemptFits(pre, 0)
    /\ LET r == PreemptedLoop(pre, 0)
       IN  /\ p_t' = r.t
           /\ IF r.ret = ESP_OK
              THEN /\ p_pc' = "wait_high"
                   /\ UNCHANGED <<p_i, p_data, p_ret, p_sensor, p_frame, p_reads>>
              ELSE PreTimeout
    /\ p_ran' = Ran(pre)
    /\ PreUnchanged

\* wait_for_level(sensor->pin, 1, DHT11_BIT_TIMEOUT_US)
PreWaitHigh(pre) ==
    /\ p_pc = "wait_high"
    /\ PreemptFits(pre, 1)
    /\ LET r == PreemptedLoop(pre, 1)
       IN  /\ p_t' = r.t
           /\ IF r.ret = ESP_OK
              THEN /\ p_pc' = "measure"
                   /\ UNCHANGED <<p_i, p_data, p_ret, p_sensor, p_frame, p_reads>>
              ELSE PreTimeout
    /\ p_ran' = Ran(pre)
    /\ PreUnchanged

\* measure_pulse_width(sensor->pin, 1, DHT11_BIT_TIMEOUT_US): the first loop finds
\* the line high, pulse_start is taken, the second loop polls until it is low;
\* then the bit is stored and i++
PreMeasure(pre) ==
    /\ p_pc = "measure"
    /\ PreemptFits(pre, 0)
    /\ LET r == PreemptedLoop(pre, 0)
       IN  /\ p_t' = r.t
           /\ IF r.ret = ESP_OK
              THEN /\ p_data' = StoreBit(p_data, p_i, r.t - p_t)
                   /\ p_i' = p_i + 1
                   /\ p_pc' = IF p_i + 1 = DATA_BITS THEN "check" ELSE "wait_low"
                   /\ UNCHANGED <<p_ret, p_sensor, p_frame, p_reads>>
              ELSE PreTimeout
    /\ p_ran' = Ran(pre)
    /\ PreUnchanged

\* the checksum test and the two stores after the 40 bits
PreCheck ==
    /\ p_pc = "check"
    /\ LET r == read_data_bits_end(p_sensor, p_data)
       IN  /\ p_ret' = r.ret
           /\ p_sensor' = r.sensor
    /\ p_pc' = "idle"
    /\ p_i' = 0
    /\ p_data' = <<0, 0, 0, 0, 0>>
    /\ UNCHANGED <<p_t, p_frame, p_ran, p_reads>>
    /\ PreUnchanged

NextPre ==
    \/ \E frame \in WireFrames : PreStart(frame)
    \/ \E pre \in Preemptions : PreWaitLow(pre)
    \/ \E pre \in Preemptions : PreWaitHigh(pre)
    \/ \E pre \in Preemptions : PreMeasure(pre)
    \/ PreCheck

\* ======================================================================
\* app_main of the hub: start-up
\* ======================================================================

ESP_ERR_NVS_NO_FREE_PAGES == "ESP_ERR_NVS_NO_FREE_PAGES"
ESP_ERR_NVS_NEW_VERSION_FOUND == "ESP_ERR_NVS_NEW_VERSION_FOUND"

\* results of nvs_flash_init
NvsResults == {ESP_OK, ESP_ERR_NVS_NO_FREE_PAGES, ESP_ERR_NVS_NEW_VERSION_FOUND, ESP_FAIL}

\* results of i2c_master_init, lcd_init, pir_init, hcsr04_init, dht11_init and
\* nimble_port_init: ESP_OK, or the error of the call that failed inside
InitResults == {ESP_OK, ESP_FAIL, ESP_ERR_INVALID_ARG}

\* the initialisations of app_main that follow the mutex, in program order, and
\* "create" for the xTaskCreate calls
InitOrder == <<"i2c", "lcd", "pir", "hcsr04", "dht11", "nimble", "create">>

\* the xTaskCreate calls of app_main, in program order
CreateOrder == <<"pir", "us", "dht", "ble", "lcd">>

\* the sensor drivers and the task each serves
SensorDrivers == {"pir", "hcsr04", "dht11"}
TaskOfDriver(d) == CASE d = "pir" -> "pir" [] d = "hcsr04" -> "us" [] d = "dht11" -> "dht"

\* the step that follows `step` in InitOrder
StepAfter(step) ==
    LET i == CHOOSE k \in 1 .. (Len(InitOrder) - 1) : InitOrder[k] = step
    IN  InitOrder[i + 1]

\* `if (ret != ESP_OK) { ESP_LOGE(..); return; }`, mutated: the failure is logged
\* and app_main goes on
AfterInit_Continue(step, ret) == [pc |-> StepAfter(step), returned |-> FALSE]

\* `if (ret != ESP_OK) { ESP_LOGE(..); return; }` after an initialisation
AfterInit(step, ret) ==
    IF ret = ESP_OK THEN [pc |-> StepAfter(step), returned |-> FALSE]
    ELSE [pc |-> step, returned |-> TRUE]

\* the structures before their drivers are initialised: zeroed static storage
pir_sensor_zero ==
    [last_state |-> FALSE, motion_count |-> 0, debounce_ms |-> 0, last_trigger_time |-> 0]
hcsr04_sensor_zero == [last_distance_cm |-> 0, timeout_us |-> 0]

\* ret = nvs_flash_init(); on NO_FREE_PAGES or NEW_VERSION_FOUND the partition is
\* erased and nvs_flash_init is called again; return unless ret == ESP_OK
AppMainNvs(ret, ret2) ==
    /\ boot_pc = "nvs" /\ ~boot_returned
    /\ LET erase == ret \in {ESP_ERR_NVS_NO_FREE_PAGES, ESP_ERR_NVS_NEW_VERSION_FOUND}
           final == IF erase THEN ret2 ELSE ret
       IN  /\ nvs_erased' = erase
           /\ boot_ret' = final
           /\ IF final = ESP_OK
              THEN boot_pc' = "mutex" /\ UNCHANGED boot_returned
              ELSE boot_returned' = TRUE /\ UNCHANGED boot_pc
    /\ UNCHANGED <<created, started>>
    /\ UNCHANGED <<now, pirVars, hcVars, dhtVars, hubVars, schedVars, remoteVars, waitVars, envVars, laterVars>>

\* sensor_data.mutex = xSemaphoreCreateMutex(); return if it is NULL; then the
\* defaults of sensor_data are stored
AppMainMutex(ok) ==
    /\ boot_pc = "mutex" /\ ~boot_returned
    /\ IF ok
       THEN /\ boot_pc' = "i2c"
            /\ mutex_free' = TRUE
            /\ sensor_data' = sensor_data_init
            /\ boot_log' = Append(boot_log, <<"defaults", ESP_OK>>)
            /\ UNCHANGED boot_returned
       ELSE /\ boot_returned' = TRUE
            /\ UNCHANGED <<boot_pc, mutex_free, sensor_data, boot_log>>
    /\ UNCHANGED <<boot_ret, created, started, nvs_erased>>
    /\ UNCHANGED <<now, pirVars, hcVars, dhtVars, holds, pc, ultrasonic_sensor, dht11_sensor,
                   ble_conn_handle, ble_val, motion, us_ret, distance, dht_ret, dht_local,
                   lcd, latest, unguarded, lcd_copied, us_good, dht_good, schedVars,
                   remoteVars, waitVars, envVars, preVars, gapVars, boot_reads, tailVars>>

\* ret = i2c_master_init() / lcd_init(..) / pir_init(..) / hcsr04_init(..) /
\* dht11_init(..) / nimble_port_init(), each followed by the test of ret; a driver
\* that succeeds has filled in its structure
AppMainInit(step, ret) ==
    /\ boot_pc = step /\ ~boot_returned
    /\ step \in {"i2c", "lcd", "pir", "hcsr04", "dht11", "nimble"}
    /\ boot_ret' = ret
    /\ boot_pc' = AfterInit(step, ret).pc
    /\ boot_returned' = AfterInit(step, ret).returned
    /\ pir' = IF step = "pir" /\ ret = ESP_OK THEN pir_init ELSE pir
    /\ ultrasonic_sensor' = IF step = "hcsr04" /\ ret = ESP_OK
                            THEN hcsr04_init(HCSR04_TIMEOUT_US) ELSE ultrasonic_sensor
    /\ dht11_sensor' = IF step = "dht11" /\ ret = ESP_OK THEN dht11_init ELSE dht11_sensor
    /\ boot_log' = Append(boot_log, <<step, ret>>)
    /\ UNCHANGED <<created, started, nvs_erased>>
    /\ UNCHANGED <<now, pir_op, pir_level, pir_ret, pir_got, pir_prev_level, pir_counted_at,
                   hcVars, dhtVars, sensor_data, mutex_free, holds, pc, ble_conn_handle,
                   ble_val, motion, us_ret, distance, dht_ret, dht_local, lcd, latest,
                   unguarded, lcd_copied, us_good, dht_good, schedVars, remoteVars, waitVars,
                   envVars, preVars, gapVars, boot_reads, tailVars>>

\* the next xTaskCreate call; after the fifth app_main returns
AppMainCreate ==
    /\ boot_pc = "create" /\ ~boot_returned
    /\ created' = created \cup {CreateOrder[Cardinality(created) + 1]}
    /\ IF Cardinality(created) + 1 = Len(CreateOrder)
       THEN boot_pc' = "done" /\ boot_returned' = TRUE
       ELSE UNCHANGED <<boot_pc, boot_returned>>
    /\ UNCHANGED <<boot_ret, started, nvs_erased>>
    /\ UNCHANGED <<now, pirVars, hcVars, dhtVars, hubVars, schedVars, remoteVars, waitVars, envVars, laterVars>>

\* a created task is scheduled and enters its task function
TaskEntry(t) ==
    /\ t \in created \ started
    /\ started' = started \cup {t}
    /\ UNCHANGED <<boot_pc, boot_ret, created, nvs_erased, boot_returned>>
    /\ UNCHANGED <<now, pirVars, hcVars, dhtVars, hubVars, schedVars, remoteVars, waitVars, envVars, laterVars>>

\* a sensor task that has started calls pir_read, hcsr04_read_distance or
\* dht11_read for the first time
TaskFirstRead(t) ==
    /\ t \in started \cap Producers
    /\ t \notin boot_reads
    /\ boot_reads' = boot_reads \cup {t}
    /\ UNCHANGED boot_log
    /\ UNCHANGED <<now, pirVars, hcVars, dhtVars, hubVars, schedVars, bootVars, remoteVars,
                   waitVars, envVars, preVars, gapVars, tailVars>>

NextBoot ==
    \/ \E ret \in NvsResults, ret2 \in {ESP_OK, ESP_FAIL} : AppMainNvs(ret, ret2)
    \/ \E ok \in BOOLEAN : AppMainMutex(ok)
    \/ \E step \in {"i2c", "lcd", "pir", "hcsr04", "dht11", "nimble"}, ret \in InitResults :
          AppMainInit(step, ret)
    \/ AppMainCreate
    \/ \E t \in Tasks : TaskEntry(t)
    \/ \E t \in Producers : TaskFirstRead(t)

\* ======================================================================
\* remote node: the motion characteristic and sensor_task
\* ======================================================================

BLE_ATT_ERR_UNLIKELY == "BLE_ATT_ERR_UNLIKELY"

\* the access operations the GATT server can hand to an access callback
GattOps == {"READ_CHR", "WRITE_CHR", "READ_DSC", "WRITE_DSC"}

\* GAP events that reach the node's ble_gap_event
RemoteGapEvents == {"CONNECT", "DISCONNECT", "ADV_COMPLETE", "OTHER"}

\* motion_detected = (motion_detected == 0) ? 1 : 0
Toggle(m) == IF m = 0 THEN 1 ELSE 0

\* motion_char_access, mutated: the value is appended whatever the operation is
motion_char_access_AnyOp(op, value) == [om |-> <<value>>, rc |-> 0]

\* motion_char_access: for BLE_GATT_ACCESS_OP_READ_CHR the sizeof(motion_detected)
\* = 1 byte of motion_detected is appended to ctxt->om and 0 is returned; for any
\* other operation nothing is appended and BLE_ATT_ERR_UNLIKELY is returned
motion_char_access(op, value) ==
    IF op = "READ_CHR" THEN [om |-> <<value>>, rc |-> 0]
    ELSE [om |-> <<>>, rc |-> BLE_ATT_ERR_UNLIKELY]

\* the loop body of sensor_task up to its vTaskDelayUntil
SensorTaskToggle ==
    /\ r_pc = "toggle"
    /\ r_cycles < MaxRemoteCycles
    /\ motion_detected' = Toggle(motion_detected)
    /\ r_cycles' = r_cycles + 1
    /\ r_pc' = "delay"
    /\ UNCHANGED <<r_op, r_om, r_rc, r_adv, r_conn>>
    /\ UNCHANGED <<now, pirVars, hcVars, dhtVars, hubVars, schedVars, bootVars, waitVars, envVars, laterVars>>

\* vTaskDelayUntil(&last_wake, SENSOR_READ_INTERVAL_MS) of sensor_task returns
SensorTaskWake ==
    /\ r_pc = "delay"
    /\ r_pc' = "toggle"
    /\ UNCHANGED <<motion_detected, r_cycles, r_op, r_om, r_rc, r_adv, r_conn>>
    /\ UNCHANGED <<now, pirVars, hcVars, dhtVars, hubVars, schedVars, bootVars, waitVars, envVars, laterVars>>

\* the NimBLE host calls motion_char_access for a request of the connected client
RemoteCharAccess(op) ==
    /\ r_conn
    /\ r_op' = op
    /\ r_om' = motion_char_access(op, motion_detected).om
    /\ r_rc' = motion_char_access(op, motion_detected).rc
    /\ UNCHANGED <<motion_detected, r_pc, r_cycles, r_adv, r_conn>>
    /\ UNCHANGED <<now, pirVars, hcVars, dhtVars, hubVars, schedVars, bootVars, waitVars, envVars, laterVars>>

\* ble_gap_event of the node.  The stack stops the advertising when a client
\* starts a connection, and reports the outcome in a CONNECT event: status 0
\* when the connection is established, an error code when the attempt failed.
\* The handler logs a CONNECT event, and calls ble_advertise() on DISCONNECT and
\* on ADV_COMPLETE
RemoteGapEvent(type, status) ==
    /\ type = "CONNECT" => (r_adv /\ ~r_conn)
    /\ type = "DISCONNECT" => r_conn
    /\ type = "ADV_COMPLETE" => r_adv
    /\ r_conn' = (IF type = "CONNECT" THEN status = 0
                  ELSE IF type = "DISCONNECT" THEN FALSE
                  ELSE r_conn)
    /\ r_adv' = (IF type = "CONNECT" THEN FALSE
                 ELSE IF type \in {"DISCONNECT", "ADV_COMPLETE"} THEN TRUE ELSE r_adv)
    /\ UNCHANGED <<motion_detected, r_pc, r_cycles, r_op, r_om, r_rc>>
    /\ UNCHANGED <<now, pirVars, hcVars, dhtVars, hubVars, schedVars, bootVars, waitVars, envVars, laterVars>>

NextRemote ==
    \/ SensorTaskToggle
    \/ SensorTaskWake
    \/ \E op \in GattOps : RemoteCharAccess(op)
    \/ \E type \in RemoteGapEvents, status \in {0, 1} : RemoteGapEvent(type, status)

\* ======================================================================
\* state after construction
\* ======================================================================
\* the part of the start state that app_main does not set up
InitCommon ==
    /\ now = 0
    /\ pir_op = "init"
    /\ pir_level = FALSE
    /\ pir_ret = FALSE
    /\ pir_got = 0
    /\ pir_prev_level = FALSE
    /\ pir_counted_at = -1
    /\ hc = hcsr04_init(HCSR04_TIMEOUT_US)
    /\ hc_pc = "idle"
    /\ start_time = 0
    /\ echo_start = 0
    /\ echo_end = 0
    /\ trig_trace = <<0>>
    /\ hc_ret = "none"
    /\ hc_got = 0
    /\ hc_op = "init"
    /\ echo_level = 0
    /\ hc_calls = 0
    /\ polls = 0
    /\ hc_prior = 0
    /\ dht = dht11_init
    /\ dht_pc = "idle"
    /\ dht_i = 0
    /\ dht_data = <<0, 0, 0, 0, 0>>
    /\ dht_result = "none"
    /\ dht_phase = "none"
    /\ dht_op = "init"
    /\ bus = <<>>
    /\ dht_frame = <<0, 0, 0, 0, 0>>
    /\ dht_profile = "nominal"
    /\ dht_in_range = TRUE
    /\ dht_entry = 0
    /\ dht_calls = 0
    /\ dht_prior = dht11_init
    /\ dht_success_at = -1
    /\ dht_width = 0
    /\ dht_success_before = -1
    /\ dht_lost = "none"
    /\ sensor_data = sensor_data_init
    /\ mutex_free = TRUE
    /\ holds = {}
    /\ pc = [t \in Tasks |->
               CASE t = "pir" -> "pir_read"
                 [] t = "us" -> "us_read"
                 [] t = "dht" -> "dht_read"
                 [] t = "lcd" -> "lcd_take"
                 [] t = "ble" -> "ble_idle"]
    /\ ble_conn_handle = BLE_HS_CONN_HANDLE_NONE
    /\ ble_val = FALSE
    /\ motion = FALSE
    /\ us_ret = "none"
    /\ distance = 0
    /\ dht_ret = "none"
    /\ dht_local = [temp |-> 0, humidity |-> 0]
    /\ lcd = lcd_locals_init
    /\ latest = sensor_data_init
    /\ unguarded = {}
    /\ lcd_copied = {}
    /\ us_good = 0
    /\ dht_good = [temperature |-> 0, humidity |-> 0]
    /\ s_task = "none"
    /\ tick = 0
    /\ last_wake = 0
    /\ uxPriority = [t \in Tasks |-> TaskPriority(t)]
    /\ s_start = 0
    /\ s_k = 0
    /\ s_woke_at = 0
    /\ s_overrun = FALSE
    /\ s_reads = 0
    /\ motion_detected = 0
    /\ r_pc = "toggle"
    /\ r_cycles = 0
    /\ r_op = "none"
    /\ r_om = <<>>
    /\ r_rc = "none"
    /\ r_adv = TRUE
    /\ r_conn = FALSE
    /\ wait_start = 0
    /\ wait_polls = 0
    /\ env_pc = "app_main"
    /\ env_last_wake = 0
    /\ env_ret = "none"
    /\ env_cycles = 0
    /\ env_prev = "none"
    /\ env_late = 0
    /\ p_pc = "idle"
    /\ p_i = 0
    /\ p_t = 0
    /\ p_data = <<0, 0, 0, 0, 0>>
    /\ p_frame = <<0, 0, 0, 0, 0>>
    /\ p_ran = {}
    /\ p_ret = "none"
    /\ p_sensor = dht11_init
    /\ p_reads = 0
    /\ gap_event = [type |-> "none", status |-> 0, conn_handle |-> 0]
    /\ gap_before = <<BLE_HS_CONN_HANDLE_NONE, FALSE>>
    /\ boot_log = <<>>
    /\ boot_reads = {}
    /\ lw_pc = "idle"
    /\ lw_mode = 0
    /\ lw_nibble = 1
    /\ lw_err = "none"
    /\ lw_log = <<>>
    /\ lw_ret = "none"
    /\ t_pc = "boot"
    /\ led_state = FALSE
    /\ led_level = -1
    /\ t_ret = "none"
    /\ t_distance = 0
    /\ t_last_value = 0
    /\ led_prev = FALSE

\* app_main has initialised the drivers, created the five tasks and returned
Init ==
    /\ InitCommon
    /\ pir = pir_init
    /\ ultrasonic_sensor = hcsr04_init(HCSR04_TIMEOUT_US)
    /\ dht11_sensor = dht11_init
    /\ boot_pc = "done"
    /\ boot_ret = ESP_OK
    /\ created = Tasks
    /\ started = Tasks
    /\ nvs_erased = FALSE
    /\ boot_returned = TRUE

\* the hub at the entry of app_main
InitBoot ==
    /\ InitCommon
    /\ pir = pir_sensor_zero
    /\ ultrasonic_sensor = hcsr04_sensor_zero
    /\ dht11_sensor = dht11_init
    /\ boot_pc = "nvs"
    /\ boot_ret = "none"
    /\ created = {}
    /\ started = {}
    /\ nvs_erased = FALSE
    /\ boot_returned = FALSE

Spec == Init /\ [][Next]_vars
SpecPir == Init /\ [][NextPir]_vars
SpecHc == Init /\ [][NextHc]_vars
SpecDht == Init /\ [][NextDht]_vars
SpecBoot == InitBoot /\ [][NextBoot]_vars
SpecRemote == Init /\ [][NextRemote]_vars
\* the microsecond clock keeps advancing and the polling task keeps running: a
\* call that has been entered makes its next step
SpecEnv == InitBoot /\ [][NextEnv]_vars
\* the GAP event handler next to pir_task, a task that owns another field
NextGap ==
    \/ \E event \in GapEvents : BleObserved(event)
    \/ Untimed(BleTake)
    \/ Untimed(BleWrite)
    \/ Untimed(BleGive)
    \/ \E level \in Levels : Untimed(PirTaskRead(level))
    \/ Untimed(PirTaskTake)
    \/ Untimed(PirTaskWrite)
    \/ Untimed(PirTaskGive)
    \/ Untimed(PirTaskWake)
SpecGap == Init /\ [][NextGap]_vars
SpecPre == Init /\ [][NextPre]_vars
SpecWaits == Init /\ [][NextWaits]_vars /\ WF_vars(WaitStep)
\* a task blocked in vTaskDelayUntil is woken when the tick count reaches its wake
\* time, and a ready task gets to run
SpecSched == Init /\ [][NextSched]_vars /\ WF_vars(SchedDelayUntil)

\* the steps a task makes between its xSemaphoreTake and the return of its
\* xSemaphoreGive: plain stores and loads, none of which blocks
CriticalSection ==
    \/ Untimed(PirTaskWrite) \/ Untimed(PirTaskGive)
    \/ Untimed(UsTaskWrite) \/ Untimed(UsTaskGive)
    \/ Untimed(DhtTaskWriteTemp) \/ Untimed(DhtTaskWriteHum) \/ Untimed(DhtTaskGive)
    \/ Untimed(LcdTaskCopyMotion) \/ Untimed(LcdTaskCopyRemote)
    \/ Untimed(LcdTaskCopyDistance) \/ Untimed(LcdTaskCopyTemp)
    \/ Untimed(LcdTaskCopyHum) \/ Untimed(LcdTaskGive)
    \/ Untimed(BleWrite) \/ Untimed(BleGive)

\* the hub under its scheduler: the task that holds the mutex is ready and gets
\* to run, and lcd_task, blocked with portMAX_DELAY, is handed the mutex at one
\* of the releases that find it waiting (every other taker then sleeps in
\* vTaskDelayUntil or waits for its next event)
SpecLock ==
    Init /\ [][Next]_vars /\ WF_vars(CriticalSection) /\ SF_vars(Untimed(LcdTaskTake))

\* ======================================================================
\* properties of the main hub (checked under Spec)
\* ======================================================================

\* the fields each task may write
Owns(t) ==
    CASE t = "pir" -> {"motion_detected"}
      [] t = "us" -> {"distance_cm"}
      [] t = "dht" -> {"temperature", "humidity"}
      [] t = "ble" -> {"remote_motion_detected", "remote_connected"}
      [] OTHER -> {}

\* labels at which a task is inside a driver read or blocked in vTaskDelayUntil
WaitLabels ==
    {"pir_read", "us_read", "dht_read", "pir_delay", "us_delay", "dht_delay", "lcd_delay"}

\* the local of lcd_task that receives a field
LocalOf(f) ==
    CASE f = "motion_detected" -> "motion"
      [] f = "remote_motion_detected" -> "remote_motion"
      [] f = "distance_cm" -> "distance"
      [] f = "temperature" -> "temp"
      [] f = "humidity" -> "humidity"

\* the fields lcd_task copies
LcdFields == Fields \ {"remote_connected"}

\* C1: every read or write of a sensor_data field by pir_task, ultrasonic_task,
\* dht11_task, lcd_task or ble_gap_event is made while that task holds
\* sensor_data.mutex, and at most one task holds the mutex.
C1_MutexDiscipline ==
    /\ unguarded = {}
    /\ Cardinality(holds) <= 1
    /\ mutex_free <=> holds = {}

\* C1 witness: lcd_task is inside its copy while two producers and the GAP
\* handler are blocked on the mutex, after every field owner has written
C1_Witness ==
    /\ holds = {"lcd"}
    /\ pc["lcd"] = "lcd_copy_distance"
    /\ pc["pir"] = "pir_take"
    /\ pc["dht"] = "dht_take"
    /\ pc["ble"] = "ble_take"
    /\ sensor_data.motion_detected
    /\ sensor_data.distance_cm > 0
    /\ sensor_data.temperature > 0

\* C2: no update is lost: when lcd_task has completed its copy, every field it
\* copied holds the value most recently written to that field.
C2_NoLostUpdate ==
    pc["lcd"] = "lcd_give" =>
        \A f \in lcd_copied : lcd[LocalOf(f)] = latest[f]

\* C2 witness: a completed copy that shows the writes of all three producers
C2_Witness ==
    /\ pc["lcd"] = "lcd_give"
    /\ lcd_copied = LcdFields
    /\ lcd.motion
    /\ lcd.distance = 17000
    /\ lcd.temp = 24 /\ lcd.humidity = 41

\* C3: a task that is inside pir_read, hcsr04_read_distance or dht11_read, or
\* blocked in vTaskDelayUntil, does not hold sensor_data.mutex.
C3_NoWaitUnderLock ==
    \A t \in Tasks : pc[t] \in WaitLabels => t \notin holds

\* C3 witness: both bounded-wait drivers are being read while lcd_task holds the
\* mutex and the motion task sleeps
C3_Witness ==
    /\ pc["us"] = "us_read"
    /\ pc["dht"] = "dht_read"
    /\ pc["pir"] = "pir_delay"
    /\ holds = {"lcd"}
    /\ sensor_data.distance_cm > 0

C5_FieldOwnership ==
    [][\A t \in Tasks : pc'[t] # pc[t] =>
          \A f \in Fields \ Owns(t) : sensor_data'[f] = sensor_data[f]]_vars

\* C5 witness: every owner has written its field(s)
C5_Witness ==
    /\ sensor_data.motion_detected
    /\ sensor_data.distance_cm = 17000
    /\ sensor_data.temperature = 24 /\ sensor_data.humidity = 41
    /\ sensor_data.remote_connected
    /\ pc["ble"] = "ble_idle"

\* C6: in a cycle whose hcsr04_read_distance or dht11_read returned an error,
\* the driver's stored value(s) and the snapshot field(s) are those of the last
\* successful read (the zero defaults if there was none), and a copy completed
\* by lcd_task during that cycle shows them.
C6_FailedReadKeepsState ==
    /\ (pc["us"] = "us_delay" /\ us_ret \notin {ESP_OK, "none"}) =>
          /\ ultrasonic_sensor.last_distance_cm = us_good
          /\ sensor_data.distance_cm = us_good
          /\ pc["lcd"] = "lcd_give" => lcd.distance = us_good
    /\ (pc["dht"] = "dht_delay" /\ dht_ret \notin {ESP_OK, "none"}) =>
          /\ dht11_sensor.last_temperature = dht_good.temperature
          /\ dht11_sensor.last_humidity = dht_good.humidity
          /\ sensor_data.temperature = dht_good.temperature
          /\ sensor_data.humidity = dht_good.humidity
          /\ pc["lcd"] = "lcd_give" =>
                (lcd.temp = dht_good.temperature /\ lcd.humidity = dht_good.humidity)

\* C6 witness: both drivers failed in their current cycle after an earlier
\* success, and lcd_task has just copied the retained values
C6_Witness ==
    /\ pc["us"] = "us_delay" /\ us_ret = ESP_ERR_TIMEOUT
    /\ pc["dht"] = "dht_delay" /\ dht_ret = ESP_ERR_INVALID_CRC
    /\ us_good = 17000
    /\ dht_good.temperature = 23
    /\ pc["lcd"] = "lcd_give"
    /\ lcd.distance = 17000 /\ lcd.temp = 23

\* ======================================================================
\* properties of the PIR driver (checked under SpecPir)
\* ======================================================================

\* C7: a pir_read call increases motion_count only when the sampled level is
\* high, the level sampled by the previous call (false after init) was low,
\* and at least the 50 ms debounce window has passed since the previous
\* counted trigger; every other call leaves motion_count unchanged, and no
\* call increases it by more than 1.
C7_CountOnlyOnDebouncedRisingEdge ==
    [][pir_op' = "read" =>
          /\ pir'.motion_count \in {pir.motion_count, pir.motion_count + 1}
          /\ pir'.motion_count # pir.motion_count =>
                /\ pir_level' = TRUE
                /\ pir_level = FALSE
                /\ pir_counted_at # -1 =>
                      now' - pir_counted_at >= PIR_DEBOUNCE_TIME_MS * 1000]_vars

\* C7 witness: a second trigger has just been counted by a pir_read, and an
\* earlier state of the same run counted the first
C7_Witness ==
    /\ pir_op = "read"
    /\ pir.motion_count = 2
    /\ pir_counted_at = now
    /\ pir_level /\ ~pir_prev_level

\* C8: for a non-NULL handle the boolean returned by pir_read equals the raw
\* level sampled in that call, counted or not, debounce-suppressed or not.
C8_ReturnsRawLevel ==
    pir_op = "read" => pir_ret = pir_level

\* C8 witness: a rising edge inside the debounce window of an earlier counted
\* trigger: the call counted nothing and still returned the raw high level
C8_Witness ==
    /\ pir_op = "read"
    /\ pir_level /\ ~pir_prev_level
    /\ pir_counted_at # -1
    /\ pir_counted_at < now
    /\ now - pir_counted_at < PIR_DEBOUNCE_TIME_MS * 1000
    /\ pir_ret = TRUE

\* ======================================================================
\* properties of the HC-SR04 driver (checked under SpecHc)
\* ======================================================================

\* C9: a wait loop of hcsr04_read_distance that finds the echo line unchanged
\* after more than timeout_us (since the start of the rise wait, or since the
\* recorded rise) returns ESP_ERR_TIMEOUT; a call that returns ESP_ERR_TIMEOUT
\* leaves last_distance_cm at its value on entry; and last_distance_cm changes
\* only in the step in which a call returns ESP_OK.
C9_TimeoutKeepsDistance ==
    [][/\ (hc_pc = "wait_rise" /\ echo_level' = 0
              /\ now' - start_time > HCSR04_TIMEOUT_US)
          => (hc_pc' = "idle" /\ hc_ret' = ESP_ERR_TIMEOUT)
       /\ (hc_pc = "wait_fall" /\ echo_level' = 1
              /\ now' - echo_start > HCSR04_TIMEOUT_US)
          => (hc_pc' = "idle" /\ hc_ret' = ESP_ERR_TIMEOUT)
       /\ (hc_pc # "idle" /\ hc_pc' = "idle" /\ hc_ret' = ESP_ERR_TIMEOUT)
          => (hc'.last_distance_cm = hc_prior /\ hc' = hc)
       /\ (hc'.last_distance_cm # hc.last_distance_cm)
          => (hc_pc = "wait_fall" /\ hc_pc' = "idle" /\ hc_ret' = ESP_OK)]_vars

\* C9 witness: a call timed out waiting for the fall (its rise was recorded),
\* after an earlier call had stored a non-zero distance
C9_Witness ==
    /\ hc_pc = "idle" /\ hc_op = "read"
    /\ hc_ret = ESP_ERR_TIMEOUT
    /\ echo_start >= start_time
    /\ echo_start > 0
    /\ hc_prior > 0
    /\ hc.last_distance_cm = hc_prior

C11_IndependentWindows ==
    [][/\ (hc_pc = "wait_fall" /\ hc_pc' = "idle"
              /\ echo_start - start_time <= hc.timeout_us
              /\ now' - echo_start <= hc.timeout_us)
          => hc_ret' = ESP_OK
       /\ (hc_pc = "wait_fall" /\ hc_pc' = "idle" /\ hc_ret' = ESP_ERR_TIMEOUT)
          => now' - echo_start > hc.timeout_us
       /\ (hc_pc = "wait_rise" /\ hc_pc' = "idle" /\ hc_ret' = ESP_ERR_TIMEOUT)
          => now' - start_time > hc.timeout_us]_vars

\* C11 witness: a call succeeded although the fall came more than timeout_us
\* after the start of the rise wait (rise after 30 ms, fall 30 ms later)
C11_Witness ==
    /\ hc_op = "read" /\ hc_pc = "idle" /\ hc_ret = ESP_OK
    /\ echo_start - start_time = hc.timeout_us
    /\ echo_end - echo_start = hc.timeout_us
    /\ echo_end - start_time > hc.timeout_us

\* ======================================================================
\* properties of the DHT11 driver (checked under SpecDht)
\* ======================================================================

\* a dht11_read call on the sensor has returned
DhtReturned == dht_op = "read" /\ dht_pc = "idle"

\* C12: a dht11_read entered fewer than 2000 ms after the end of the last
\* successful read returns ESP_ERR_INVALID_STATE, makes no pin direction change
\* and no pin level write, and leaves temperature, humidity and the time of the
\* last read as they were.
C12_TooSoonNoBusActivity ==
    (/\ dht_op = "read"
     /\ dht_success_before # -1
     /\ dht_entry - dht_success_before < 2000 * 1000)
    => /\ dht_pc = "idle"
       /\ dht_result = ESP_ERR_INVALID_STATE
       /\ bus = <<>>
       /\ dht = dht_prior

\* C12 witness: a call made 1999.999 ms after a read that stored 40 %RH / 23 C
\* was rejected
C12_Witness ==
    /\ DhtReturned
    /\ dht_result = ESP_ERR_INVALID_STATE
    /\ dht_success_before # -1
    /\ dht_entry - dht_success_before = 1999999
    /\ dht.last_humidity = 40 /\ dht.last_temperature = 23
    /\ bus = <<>>

\* C13 as claimed: dht11_read returns ESP_ERR_INVALID_STATE only when an earlier
\* read succeeded and ended less than 2000 ms before the call; a call made
\* while no read has succeeded since dht11_init is never rejected.
C13_TooSoonOnlyAfterSuccess ==
    (DhtReturned /\ dht_result = ESP_ERR_INVALID_STATE)
    => (dht_success_before # -1 /\ dht_entry - dht_success_before < 2000 * 1000)

\* C14: when the decoded frame has data[4] different from
\* (data[0] + data[1] + data[2] + data[3]) mod 256, dht11_read returns
\* ESP_ERR_INVALID_CRC and temperature, humidity and the time of the last
\* successful read are unchanged.
C14_ChecksumMismatchKeepsState ==
    (/\ DhtReturned
     /\ dht_phase = "checksum"
     /\ (dht_data[1] + dht_data[2] + dht_data[3] + dht_data[4]) % 256 # dht_data[5])
    => /\ dht_result = ESP_ERR_INVALID_CRC
       /\ dht = dht_prior

\* C14 witness: a frame with a wrong checksum byte was rejected after an
\* earlier read had stored 200 %RH / 50 C
C14_Witness ==
    /\ DhtReturned
    /\ dht_result = ESP_ERR_INVALID_CRC
    /\ dht_data = <<40, 0, 23, 0, 64>>
    /\ dht_prior.last_humidity = 200 /\ dht_prior.last_temperature = 50
    /\ dht_prior.last_read_time_us = dht_success_before

\* C15: when a wait of the protocol runs out of time (acknowledgement low,
\* acknowledgement high, or for a bit the wait for low, the wait for high or
\* either loop of the pulse measurement), the call ends there with
\* ESP_ERR_TIMEOUT and temperature, humidity and the time of the last
\* successful read are unchanged; consequently a call that follows a timed-out
\* call is rejected by the rate limit only on account of an earlier read.
C15_TimeoutKeepsState ==
    /\ dht_lost # "none" =>
          /\ dht_pc = "idle"
          /\ dht_result = ESP_ERR_TIMEOUT
          /\ dht = dht_prior
    /\ (DhtReturned /\ dht_result = ESP_ERR_TIMEOUT) =>
          dht.last_read_time_us = IF dht_success_before = -1 THEN 0
                                  ELSE dht_success_before

\* C15 witness: the measurement of the last bit timed out, after an earlier
\* read had stored 40 %RH / 23 C
C15_Witness ==
    /\ DhtReturned
    /\ dht_result = ESP_ERR_TIMEOUT
    /\ dht_lost = "pulse_end"
    /\ dht_phase = "measure"
    /\ dht.last_humidity = 40 /\ dht.last_temperature = 23
    /\ dht.last_read_time_us = dht_success_before
    /\ now - dht_entry > 20000

\* C16: when the decoded frame has a matching checksum, dht11_read returns
\* ESP_OK, stores humidity = data[0] and temperature = data[2] whatever the
\* fractional bytes data[1] and data[3] are, and records the time of the read;
\* the frame 0x28 0x00 0x17 0x00 0x3F stores humidity 40 and temperature 23.
C16_DecodedFrameStored ==
    (/\ DhtReturned
     /\ dht_phase = "checksum"
     /\ (dht_data[1] + dht_data[2] + dht_data[3] + dht_data[4]) % 256 = dht_data[5])
    => /\ dht_result = ESP_OK
       /\ dht.last_humidity = dht_data[1]
       /\ dht.last_temperature = dht_data[3]
       /\ dht.last_read_time_us = now
       /\ dht_data = <<40, 0, 23, 0, 63>> =>
             (dht.last_humidity = 40 /\ dht.last_temperature = 23)

\* C16 witness: a frame with non-zero fractional bytes replaced the values of
\* the example frame
C16_Witness ==
    /\ DhtReturned
    /\ dht_result = ESP_OK
    /\ dht_data = <<200, 100, 50, 10, 104>>
    /\ dht_prior.last_humidity = 40 /\ dht_prior.last_temperature = 23
    /\ dht.last_humidity = 200 /\ dht.last_temperature = 50
    /\ dht.last_read_time_us = now

\* the bits of data[] that the loop of read_data_bits has stored so far
DecodedBit(k) == BitOf(dht_data[(k \div 8) + 1], 7 - (k % 8))

Period == TaskPeriodMs(s_task)

\* C18: a periodic task's wake reference after k calls of vTaskDelayUntil is its
\* initial tick count plus k periods, whatever the time its passes took; and as
\* long as every pass took less than one period, the k-th return from
\* vTaskDelayUntil happens exactly at that tick.
C18_AbsoluteDeadline ==
    s_task \in PeriodicTasks =>
        /\ last_wake = s_start + s_k * Period
        /\ ~s_overrun => s_woke_at = s_start + s_k * Period
        /\ tick >= s_woke_at

\* C18 witness: lcd_task, started at tick 7, has returned from its third
\* vTaskDelayUntil at tick 3007, none of its passes having overrun the period
C18_Witness ==
    /\ s_task = "lcd"
    /\ s_start = 7
    /\ s_k = MaxWakes
    /\ ~s_overrun
    /\ s_woke_at = 7 + MaxWakes * LCD_PERIOD_MS
    /\ last_wake = s_woke_at

\* the priorities are ordered pir > ultrasonic > dht11 = ble > lcd, and pir_task
\* has the highest priority and the shortest period
PriorityOrder ==
    /\ uxPriority["pir"] > uxPriority["us"]
    /\ uxPriority["us"] > uxPriority["dht"]
    /\ uxPriority["dht"] = uxPriority["ble"]
    /\ uxPriority["ble"] > uxPriority["lcd"]
    /\ \A t \in PeriodicTasks \ {"pir"} : TaskPeriodMs("pir") < TaskPeriodMs(t)

\* C19 as stated: with that order, lcd_task has the lowest priority and the
\* longest period of all periodic tasks.
C19_DisplayLongestPeriod ==
    /\ PriorityOrder
    /\ \A t \in PeriodicTasks \ {"lcd"} : TaskPeriodMs("lcd") > TaskPeriodMs(t)

\* C19: the priorities are ordered pir > ultrasonic > dht11 = ble > lcd; pir_task
\* has the highest priority and the shortest period; lcd_task has the lowest
\* priority, but its period of 1000 ms is shorter than the 3000 ms of
\* dht11_task, which is the longest; a task's wake reference advances by its
\* own period.
C19_PriorityOrderDhtLongest ==
    /\ PriorityOrder
    /\ \A t \in Tasks \ {"lcd"} : uxPriority["lcd"] < uxPriority[t]
    /\ TaskPeriodMs("lcd") > TaskPeriodMs("us")
    /\ TaskPeriodMs("lcd") < TaskPeriodMs("dht")
    /\ \A t \in PeriodicTasks \ {"dht"} : TaskPeriodMs("dht") > TaskPeriodMs(t)
    /\ (s_task \in PeriodicTasks /\ s_k = 1) =>
          last_wake - s_start = (CASE s_task = "pir" -> 100 [] s_task = "us" -> 200
                                   [] s_task = "dht" -> 3000 [] s_task = "lcd" -> 1000)

\* C19 witness: dht11_task, of priority 3, has made one call of vTaskDelayUntil,
\* which moved its wake reference by 3000 ms, more than the period of lcd_task
C19_Witness ==
    /\ s_task = "dht"
    /\ s_k = 1
    /\ uxPriority["dht"] = 3
    /\ uxPriority["lcd"] = 2
    /\ last_wake - s_start = 3000
    /\ last_wake - s_start > LCD_PERIOD_MS

\* one pass of a producer: no read yet at the read label, one read at every
\* other label; a failed read is followed by the vTaskDelayUntil call; a read
\* happens at the tick at which vTaskDelayUntil returned
OneReadPerCycle ==
    s_task \in Producers =>
        /\ s_reads <= 1
        /\ pc[s_task] = ReadLabel(s_task) <=> s_reads = 0
        /\ ReadFailed(s_task) => pc[s_task] = DelayLabel(s_task)
        /\ pc[s_task] = ReadLabel(s_task) => tick = s_woke_at

\* the step from the vTaskDelayUntil call of a producer leads to its read label,
\* and when the call blocked, to a tick one period after the previous wake
WakeOnePeriodLater ==
    (s_task \in Producers /\ pc[s_task] = DelayLabel(s_task) /\ pc'[s_task] # pc[s_task]) =>
        /\ pc'[s_task] = ReadLabel(s_task)
        /\ s_reads' = 0
        /\ tick < last_wake + Period => tick' = last_wake + Period
        /\ ~s_overrun' => s_woke_at' = s_woke_at + Period

\* C20: in every pass a producer task calls its driver's read once; after a
\* failed read it makes no second call in that pass but goes to its
\* vTaskDelayUntil, from which it comes back to the read one period after its
\* previous wake; and a failed read is always followed by another read attempt.
C20_FailedReadNoRetryNextCycle ==
    /\ []OneReadPerCycle
    /\ [][WakeOnePeriodLater]_vars
    /\ \A t \in {"us", "dht"} :
          (s_task = t /\ ReadFailed(t) /\ s_k < MaxWakes)
             ~> (s_task = t /\ pc[t] = ReadLabel(t) /\ s_reads = 0 /\ ~ReadFailed(t))

\* C20 witness: ultrasonic_task, whose first read timed out, is back at its read
\* one period after its start, having made no other call in between
C20_Witness ==
    /\ s_task = "us"
    /\ s_k = 1
    /\ pc["us"] = "us_read"
    /\ s_reads = 0
    /\ ~s_overrun
    /\ tick = s_start + ULTRASONIC_PERIOD_MS
    /\ sensor_data.distance_cm = 0
    /\ us_good = 0

\* ----------------------------------------------------------------------
\* properties of the snapshot lock (checked under SpecLock)
\* ----------------------------------------------------------------------

\* the labels at which a task is inside a driver read or a delay
OutsideLock ==
    {"pir_read", "us_read", "dht_read", "pir_delay", "us_delay", "dht_delay", "lcd_delay",
     "lcd_io", "ble_idle"}

\* the mutex is held by at most one task; no task holds it while it is in a
\* driver read, in LCD output or in a delay; and whenever it is held its
\* holder has a step it can make
LockNeverHeldAcrossWait ==
    /\ mutex_free <=> holds = {}
    /\ \A t \in holds : holds = {t} /\ pc[t] \notin OutsideLock
    /\ ~mutex_free => ENABLED CriticalSection

StepIndex(step) ==
    IF step \in {"nvs", "mutex"} THEN 0
    ELSE IF step = "done" THEN Len(InitOrder)
    ELSE CHOOSE k \in 1 .. Len(InitOrder) : InitOrder[k] = step

\* the initialisation of driver d has been called and returned ESP_OK
Initialised(d) == StepIndex(d) < StepIndex(boot_pc)

\* app_main returned because the initialisation of driver d failed
InitFailedAt(d) == boot_returned /\ boot_pc = d /\ boot_ret # ESP_OK

\* C22 as stated: when the initialisation of one sensor driver has failed, the
\* tasks of the sensor drivers that were initialised are created and started.
C22_OtherTasksStillCreated ==
    \A d \in SensorDrivers :
        InitFailedAt(d) =>
            \A e \in SensorDrivers \ {d} :
                Initialised(e) => TaskOfDriver(e) \in created

\* C22: when an initialisation has failed app_main has returned without
\* creating any task, those of the initialised drivers included; a task is
\* created only after every initialisation returned ESP_OK, only created
\* tasks start, and after a start-up without failure all five tasks exist.
C22_InitFailureCreatesNoTask ==
    /\ (boot_returned /\ boot_pc # "done") => (created = {} /\ started = {})
    /\ created # {} =>
          /\ boot_pc \in {"create", "done"}
          /\ boot_ret = ESP_OK
          /\ pir = pir_init
          /\ ultrasonic_sensor = hcsr04_init(HCSR04_TIMEOUT_US)
    /\ started \subseteq created
    /\ boot_pc = "done" => created = Tasks

\* C22 witness: pir_init and hcsr04_init succeeded, dht11_init failed, and
\* app_main has returned with no task created
C22_Witness ==
    /\ InitFailedAt("dht11")
    /\ boot_ret = ESP_FAIL
    /\ Initialised("pir") /\ pir = pir_init
    /\ Initialised("hcsr04") /\ ultrasonic_sensor = hcsr04_init(HCSR04_TIMEOUT_US)
    /\ created = {}

\* ----------------------------------------------------------------------
\* properties of the remote node (checked under SpecRemote)
\* ----------------------------------------------------------------------

\* the results of the last access fit its operation
AccessResultFits ==
    /\ motion_detected \in {0, 1}
    /\ r_op = "READ_CHR" => (r_rc = 0 /\ Len(r_om) = 1 /\ r_om[1] \in {0, 1})
    /\ r_op \in GattOps \ {"READ_CHR"} => (r_om = <<>> /\ r_rc = BLE_ATT_ERR_UNLIKELY)

\* a characteristic read appends the byte motion_detected holds at that moment
\* and leaves it unchanged
ReadReturnsCurrent ==
    (r_op' = "READ_CHR" /\ <<r_op, r_om, r_rc>>' # <<r_op, r_om, r_rc>>) =>
        (r_om' = <<motion_detected>> /\ motion_detected' = motion_detected)

\* C23: motion_detected is always 0 or 1; a characteristic read returns 0 with
\* one byte, the value of motion_detected at the time of the read; any other
\* access appends nothing and returns BLE_ATT_ERR_UNLIKELY.
C23_MotionCharacteristic ==
    /\ []AccessResultFits
    /\ [][ReadReturnsCurrent]_vars

\* C23 witness: after three passes of sensor_task a read returned the byte 1,
\* the current value
C23_Witness ==
    /\ r_cycles = 3
    /\ motion_detected = 1
    /\ r_op = "READ_CHR"
    /\ r_om = <<1>>
    /\ r_rc = 0
    /\ r_conn

\* ----------------------------------------------------------------------
\* further properties of the PIR driver (checked under SpecPir)
\* ----------------------------------------------------------------------

\* a step in which pir_read, called with the sensor's handle, samples a
\* rising edge
PirReadsRisingEdge ==
    /\ pir_op' = "read"
    /\ now' # now
    /\ pir_level'
    /\ ~pir.last_state

\* C24: a pir_read that samples a rising edge when no trigger has been counted
\* since pir_init, or when at least the debounce window has passed since the
\* last counted trigger, adds one to motion_count and stores the current time
\* as the trigger time.
C24_RisingEdgeCounted ==
    [][(/\ PirReadsRisingEdge
        /\ \/ pir_counted_at = -1
           \/ now' - pir_counted_at >= PIR_DEBOUNCE_TIME_MS * 1000)
       => (/\ pir'.motion_count = pir.motion_count + 1
           /\ pir'.last_trigger_time = now')]_vars

\* the trigger time the debounce test of the next pir_read compares with: that
\* of the last counted trigger, 0 while none has been counted
DebounceReference == IF pir_counted_at = -1 THEN 0 ELSE pir_counted_at

\* pir_reset_motion_count with the sensor's handle clears motion_count and
\* nothing else
ResetClearsCountOnly ==
    pir_op' = "reset" =>
        /\ pir'.motion_count = 0
        /\ pir'.last_state = pir.last_state
        /\ pir'.last_trigger_time = pir.last_trigger_time
        /\ pir'.debounce_ms = pir.debounce_ms
        /\ UNCHANGED <<now, pir_level, pir_ret, pir_got, pir_prev_level, pir_counted_at>>

\* pir_get_motion_count returns motion_count, which is 0 right after a reset,
\* and changes nothing
GetChangesNothing ==
    pir_op' = "get" =>
        /\ pir_got' = pir.motion_count
        /\ pir_op = "reset" => pir_got' = 0
        /\ UNCHANGED <<now, pir, pir_level, pir_ret, pir_prev_level, pir_counted_at>>

\* the pir_read that follows a reset counts its sample exactly when it is a
\* rising edge against the level sampled before the reset and the debounce test
\* against the trigger time of before the reset passes
ReadAfterResetGatedAsBefore ==
    (pir_op = "reset" /\ pir_op' = "read") =>
        /\ (pir'.motion_count = 1) <=>
              (/\ pir_level' /\ ~pir_level
               /\ now' - DebounceReference >= PIR_DEBOUNCE_TIME_MS * 1000)
        /\ pir'.motion_count \in {0, 1}

\* C25: pir_reset_motion_count sets motion_count to 0 and leaves last_state,
\* last_trigger_time and debounce_ms as they were, so that a
\* pir_get_motion_count right after it returns 0 and the next rising edge is
\* debounced as if no reset had happened; pir_get_motion_count changes no state.
C25_ResetFrame ==
    /\ [][ResetClearsCountOnly]_vars
    /\ [][GetChangesNothing]_vars
    /\ [][ReadAfterResetGatedAsBefore]_vars

\* C25 witness: a trigger was counted at 50 ms with the pin still high, the
\* count was reset, and pir_get_motion_count has returned 0
C25_Witness ==
    /\ pir_op = "get"
    /\ pir_got = 0
    /\ pir.motion_count = 0
    /\ pir_counted_at = 50000
    /\ pir.last_trigger_time = 50000
    /\ pir.last_state
    /\ pir.debounce_ms = PIR_DEBOUNCE_TIME_MS

\* ----------------------------------------------------------------------
\* further properties of the HC-SR04 driver (checked under SpecHc)
\* ----------------------------------------------------------------------

\* C26: when hcsr04_read_distance has returned ESP_OK, the pulse width it
\* converted, echo_end - echo_start, is at most timeout_us.
C26_ConvertedPulseWithinTimeout ==
    hc_ret = ESP_OK =>
        /\ echo_end - echo_start <= hc.timeout_us
        /\ hc.last_distance_cm <= DistanceCm(hc.timeout_us)

\* the level the trigger pin was last set to
TrigLevel == trig_trace[Len(trig_trace)]

\* C27: from the first sample of the echo line to the return of
\* hcsr04_read_distance, with ESP_OK or with ESP_ERR_TIMEOUT from either wait, the
\* call has set the trigger pin low, high and low, in this order and nothing
\* else, 12 us having passed before the rise wait starts; the pin is low
\* whenever the driver is not inside its trigger pulse.
C27_TriggerPulseBeforeEcho ==
    /\ TrigLevel = 0
    /\ (hc_pc \in {"wait_rise", "wait_fall"} \/ hc_ret \in {ESP_OK, ESP_ERR_TIMEOUT}) =>
          /\ trig_trace = <<0, 1, 0>>
          /\ start_time = hc_calls * ULTRASONIC_PERIOD_MS * 1000
                            + TRIGGER_LOW_US + TRIGGER_HIGH_US
    /\ (polls > 0 \/ echo_start # 0 \/ echo_end # 0) => trig_trace = <<0, 1, 0>>

\* C27 witness: a call whose fall wait timed out has returned, after the
\* pulse low, high, low on the trigger pin
C27_Witness ==
    /\ hc_pc = "idle"
    /\ hc_ret = ESP_ERR_TIMEOUT
    /\ echo_start > start_time
    /\ echo_level = 1
    /\ trig_trace = <<0, 1, 0>>
    /\ TrigLevel = 0

\* ----------------------------------------------------------------------
\* termination of the bounded waits (checked under SpecWaits)
\* ----------------------------------------------------------------------

\* C28: every call of hcsr04_read_distance and of dht11_read returns, whether
\* the echo or data line changes in time, late, or stays high or low for good;
\* a wait that never sees its level ends with ESP_ERR_TIMEOUT once the clock has
\* passed its timeout.
C28_BoundedWaitsReturn ==
    /\ (hc_pc # "idle") ~> (hc_pc = "idle" /\ hc_ret \in {ESP_OK, ESP_ERR_TIMEOUT})
    /\ (dht_pc # "idle") ~>
          (dht_pc = "idle" /\ dht_result \in {ESP_OK, ESP_ERR_TIMEOUT, ESP_ERR_INVALID_CRC})
    /\ [](dht_pc = "stuck" => now - wait_start <= WaitTimeout(dht_lost))
    /\ [][(dht_pc = "stuck" /\ dht_pc' = "idle") =>
            (dht_result' = ESP_ERR_TIMEOUT /\ now' - wait_start > WaitTimeout(dht_lost))]_vars

\* C28 witness: the data line stayed high while bit 17 was being measured, and
\* the call has returned ESP_ERR_TIMEOUT
C28_Witness ==
    /\ dht_pc = "idle"
    /\ dht_op = "read"
    /\ dht_lost = "pulse_end"
    /\ dht_result = ESP_ERR_TIMEOUT
    /\ dht_phase = "measure"
    /\ wait_polls = 0

\* ----------------------------------------------------------------------
\* temperature and humidity travel as a pair (checked under Spec)
\* ----------------------------------------------------------------------

\* the start-up defaults of the pair
DefaultPair == [temp |-> sensor_data_init.temperature, humidity |-> sensor_data_init.humidity]

\* the pairs dht11_task obtains from reads that return ESP_OK
ReadPairs ==
    {[temp |-> read_data_bits_end(dht11_init, f).sensor.last_temperature,
      humidity |-> read_data_bits_end(dht11_init, f).sensor.last_humidity] :
        f \in {g \in HubFrames : read_data_bits_end(dht11_init, g).ret = ESP_OK}}

\* lcd_task has copied both values of this cycle and not yet started the next one
LcdHasPair == pc["lcd"] \in {"lcd_give", "lcd_io"}

\* C29: the temperature and the humidity lcd_task copies in one critical
\* section are the start-up defaults or the two values of one successful
\* dht11_read, never the temperature of one read with the humidity of another.
C29_PairFromOneRead ==
    LcdHasPair => [temp |-> lcd.temp, humidity |-> lcd.humidity] \in ReadPairs \cup {DefaultPair}

\* C29 witness: lcd_task copied the pair of the second frame while dht11_task
\* is writing a different pair and waits for the mutex
C29_Witness ==
    /\ pc["lcd"] = "lcd_give"
    /\ pc["dht"] = "dht_take"
    /\ lcd.temp # 0
    /\ dht_local.temp # 0
    /\ dht_local.temp # lcd.temp
    /\ dht_local.humidity # lcd.humidity

\* ----------------------------------------------------------------------
\* dht11_task is never turned away by the rate limit (checked under SpecEnv)
\* ----------------------------------------------------------------------

\* C30: no dht11_read of dht11_task returns TooSoon (ESP_ERR_INVALID_STATE):
\* not the first call after start-up, not a call after a failed read, not a call
\* of a pass that started late because the motion and ranging tasks were
\* running; every call is made at least 2000 ms after the last stored read time.
C30_NeverTooSoon ==
    /\ env_ret # ESP_ERR_INVALID_STATE
    /\ env_pc = "read" => ~RateLimited(dht11_sensor, now)

\* C30 witness: the pass after a failed read started late, directly after a
\* late and slow successful read two passes before, and its read succeeded
C30_Witness ==
    /\ env_pc = "delay"
    /\ env_cycles = 2
    /\ env_prev = ESP_ERR_TIMEOUT
    /\ env_late = RangingBusyMs
    /\ env_ret = ESP_OK

\* ----------------------------------------------------------------------
\* decoding under preemption (checked under SpecPre)
\* ----------------------------------------------------------------------

\* C31: whenever read_data_bits has returned ESP_OK, the stored humidity and
\* temperature are byte 0 and byte 2 of the frame the sensor transmitted,
\* wherever pir_task and ultrasonic_task preempted dht11_task during the 40
\* bits; a preemption makes the read fail or leaves its result as it is.
C31_PreemptionNeverStoresWrongValue ==
    (p_pc = "idle" /\ p_ret = ESP_OK) =>
        /\ p_sensor.last_humidity = p_frame[1]
        /\ p_sensor.last_temperature = p_frame[3]

\* C31 witness: pir_task ran during the bits and the read still returned ESP_OK
\* with the transmitted values
C31_Witness ==
    /\ p_pc = "idle"
    /\ p_ret = ESP_OK
    /\ p_ran = {"pir"}
    /\ p_sensor.last_humidity = p_frame[1]
    /\ p_sensor.last_temperature = p_frame[3]
    /\ p_frame[1] # 0

\* ----------------------------------------------------------------------
\* the hub's GAP event handler (checked under SpecGap)
\* ----------------------------------------------------------------------

\* ble_gap_event is not executing
HandlerIdle == pc["ble"] = "ble_idle"

\* what the last call of ble_gap_event has left, by its event
HandlerEffect ==
    HandlerIdle =>
        CASE gap_event.type = "CONNECT" /\ gap_event.status = 0 ->
                /\ ble_conn_handle = gap_event.conn_handle
                /\ sensor_data.remote_connected = TRUE
          [] gap_event.type = "DISCONNECT" ->
                /\ ble_conn_handle = BLE_HS_CONN_HANDLE_NONE
                /\ sensor_data.remote_connected = FALSE
          [] OTHER ->
                <<ble_conn_handle, sensor_data.remote_connected>> = gap_before

\* a step of the handler leaves every field but remote_connected as it is
HandlerWritesOwnField ==
    pc'["ble"] # pc["ble"] =>
        sensor_data' = [sensor_data EXCEPT !.remote_connected = sensor_data'.remote_connected]

\* C32: a CONNECT event with status 0 sets the connection handle and
\* remote_connected, a DISCONNECT event sets the handle to NONE and clears
\* remote_connected, any other event changes neither; while the handler is not
\* executing remote_connected is true exactly when the handle is not NONE; the
\* handler changes no other field of the shared record.
C32_GapHandler ==
    /\ [](HandlerEffect)
    /\ [](HandlerIdle =>
            (sensor_data.remote_connected <=> ble_conn_handle # BLE_HS_CONN_HANDLE_NONE))
    /\ [][HandlerWritesOwnField]_vars

\* C32 witness: connected, a CONNECT event reporting a failure was handled and
\* left the connection as it was, while pir_task has stored a detection
C32_Witness ==
    /\ HandlerIdle
    /\ gap_event.type = "CONNECT"
    /\ gap_event.status # 0
    /\ gap_before = <<0, TRUE>>
    /\ sensor_data.remote_connected
    /\ sensor_data.motion_detected

\* ----------------------------------------------------------------------
\* the remote node stays reachable (checked under SpecRemote)
\* ----------------------------------------------------------------------

\* C33: once the stack has synced the node is, in every state, advertising or
\* connected to a client, whatever GAP events arrive, a CONNECT event that
\* reports a failed connection attempt included.
C33_AdvertisingOrConnected == r_adv \/ r_conn

\* ----------------------------------------------------------------------
\* initialisation before use (checked under SpecBoot)
\* ----------------------------------------------------------------------

\* the entries of boot_log for step `what`
LogOf(what) == SelectSeq(boot_log, LAMBDA e : e[1] = what)

\* the driver d has been initialised exactly once, with success
InitialisedOnce(d) == LogOf(d) = <<(<<d, ESP_OK>>)>>

\* the initialisations of all sensor drivers have succeeded, once each, after
\* the defaults of the snapshot were stored
AllReady ==
    /\ \A d \in SensorDrivers : InitialisedOnce(d)
    /\ Len(LogOf("defaults")) = 1
    /\ boot_log[1][1] = "defaults"
    /\ pir = pir_init
    /\ ultrasonic_sensor = hcsr04_init(HCSR04_TIMEOUT_US)
    /\ dht11_sensor = dht11_init

\* C34: no sensor task reads its driver before that driver's initialisation
\* has succeeded: a sensor task exists only when pir_init, hcsr04_init and
\* dht11_init have all returned ESP_OK and the defaults of the snapshot have
\* been stored, and no driver is initialised more than once.
C34_InitBeforeRead ==
    /\ \A d \in SensorDrivers : Len(LogOf(d)) <= 1
    /\ \A d \in SensorDrivers : TaskOfDriver(d) \in boot_reads => InitialisedOnce(d)
    /\ (created \cap Producers # {}) => AllReady
    /\ boot_reads \subseteq started
    /\ started \subseteq created

\* C34 witness: all three sensor tasks have made their first read while
\* lcd_task has not been created yet
C34_Witness ==
    /\ boot_reads = Producers
    /\ "lcd" \notin created
    /\ AllReady

\* ======================================================================
\* LCD driver: lcd_write_byte and the helpers under it
\* ======================================================================

\* the register-select bit of the mode argument
LCD_RS == 1

\* results of i2c_master_cmd_begin
I2cResults == {ESP_OK, ESP_ERR_TIMEOUT, ESP_FAIL}

LcdIoUnchanged ==
    UNCHANGED <<now, pirVars, hcVars, dhtVars, hubVars, schedVars, bootVars, remoteVars,
                waitVars, envVars, preVars, gapVars, startVars, ledVars>>

\* lcd_send_command or lcd_send_data calls lcd_write_byte, which calls
\* lcd_write_nibble for the high nibble, which calls lcd_pulse_enable
LcdSend(mode) ==
    /\ lw_pc \in {"idle", "done"}
    /\ lw_pc' = "en_high"
    /\ lw_mode' = mode
    /\ lw_nibble' = 1
    /\ lw_err' = "none"
    /\ lw_log' = <<>>
    /\ lw_ret' = "none"
    /\ LcdIoUnchanged

\* lcd_pulse_enable, first half: the transaction with the enable bit set; its
\* result is stored in err
LcdPulseEnableHigh(result) ==
    /\ lw_pc = "en_high"
    /\ lw_err' = result
    /\ lw_log' = Append(lw_log, result)
    /\ lw_pc' = "en_low"
    /\ UNCHANGED <<lw_mode, lw_nibble, lw_ret>>
    /\ LcdIoUnchanged

\* lcd_pulse_enable, second half: the transaction with the enable bit cleared;
\* its result is stored in the same err, which is then returned
LcdPulseEnableLow(result) ==
    /\ lw_pc = "en_low"
    /\ lw_err' = result
    /\ lw_log' = Append(lw_log, result)
    /\ lw_pc' = "ret"
    /\ UNCHANGED <<lw_mode, lw_nibble, lw_ret>>
    /\ LcdIoUnchanged

\* lcd_write_byte after a nibble: an error of the high nibble is returned, else
\* the low nibble is written and its result returned
LcdWriteByteNext ==
    /\ lw_pc = "ret"
    /\ IF lw_nibble = 1 /\ lw_err = ESP_OK
       THEN /\ lw_nibble' = 2
            /\ lw_pc' = "en_high"
            /\ UNCHANGED lw_ret
       ELSE /\ lw_pc' = "done"
            /\ lw_ret' = lw_err
            /\ UNCHANGED lw_nibble
    /\ UNCHANGED <<lw_mode, lw_err, lw_log>>
    /\ LcdIoUnchanged

NextLcdIo ==
    \/ \E mode \in {0, LCD_RS} : LcdSend(mode)
    \/ \E result \in I2cResults : LcdPulseEnableHigh(result)
    \/ \E result \in I2cResults : LcdPulseEnableLow(result)
    \/ LcdWriteByteNext

SpecLcdIo == Init /\ [][NextLcdIo]_vars

\* the results of the two transactions of the lcd_pulse_enable call that has
\* just returned
LastPulse == <<lw_log[Len(lw_log) - 1], lw_log[Len(lw_log)]>>

\* C35: lcd_pulse_enable returns an error whenever one of its two I2C
\* transactions failed and ESP_OK only when both succeeded, and so does the
\* byte write built on it.
C35_EitherTransactionFails ==
    /\ lw_pc = "ret" => (lw_err = ESP_OK <=> (LastPulse[1] = ESP_OK /\ LastPulse[2] = ESP_OK))
    /\ lw_pc = "done" => (lw_ret = ESP_OK <=> \A i \in 1..Len(lw_log) : lw_log[i] = ESP_OK)

\* ======================================================================
\* ultrasonic test application (test_hcsr04_sensor.c)
\* ======================================================================

LED_PIN == 2
LED_ON_THRESHOLD_CM == 30
LED_OFF_THRESHOLD_CM == 35
DISTANCE_CHANGE_THRESHOLD_CM == 1

\* gpio_config and gpio_set_level of the GPIO driver, by its documentation:
\* ESP_ERR_INVALID_ARG for a GPIO number that is not an output, else ESP_OK;
\* on the ESP32 the GPIOs 0..33 can be outputs, 34..39 are inputs only
GpioOutputRet(pin) ==
    IF pin \in 0..33 THEN ESP_OK ELSE ESP_ERR_INVALID_ARG

\* echo pulse widths of the readings, in microseconds: 2.0 cm, just under and
\* just over 30 cm, 32.3 cm, just under and just over 35 cm, 391 cm
TestPulses == {118, 1764, 1765, 1900, 2058, 2059, 23000}

\* the absolute difference of fabs()
Fabs(x) == IF x < 0 THEN -x ELSE x

\* led_update, mutated: no band between the thresholds, the LED is turned off
\* at the on threshold
led_update_NoBand(state, level, distance_cm) ==
    IF distance_cm < LED_ON_THRESHOLD_CM * 1000
    THEN IF ~state
         THEN IF GpioOutputRet(LED_PIN) # ESP_OK
              THEN [state |-> state, level |-> level, ret |-> GpioOutputRet(LED_PIN)]
              ELSE [state |-> TRUE, level |-> 1, ret |-> ESP_OK]
         ELSE [state |-> state, level |-> level, ret |-> ESP_OK]
    ELSE IF distance_cm > LED_ON_THRESHOLD_CM * 1000
    THEN IF state
         THEN IF GpioOutputRet(LED_PIN) # ESP_OK
              THEN [state |-> state, level |-> level, ret |-> GpioOutputRet(LED_PIN)]
              ELSE [state |-> FALSE, level |-> 0, ret |-> ESP_OK]
         ELSE [state |-> state, level |-> level, ret |-> ESP_OK]
    ELSE [state |-> state, level |-> level, ret |-> ESP_OK]

\* led_update: led_state, the level of the pin and the return value after the
\* call; distances are in thousandths of a centimetre
led_update(state, level, distance_cm) ==
    IF distance_cm < LED_ON_THRESHOLD_CM * 1000
    THEN IF ~state
         THEN IF GpioOutputRet(LED_PIN) # ESP_OK
              THEN [state |-> state, level |-> level, ret |-> GpioOutputRet(LED_PIN)]
              ELSE [state |-> TRUE, level |-> 1, ret |-> ESP_OK]
         ELSE [state |-> state, level |-> level, ret |-> ESP_OK]
    ELSE IF distance_cm > LED_OFF_THRESHOLD_CM * 1000
    THEN IF state
         THEN IF GpioOutputRet(LED_PIN) # ESP_OK
              THEN [state |-> state, level |-> level, ret |-> GpioOutputRet(LED_PIN)]
              ELSE [state |-> FALSE, level |-> 0, ret |-> ESP_OK]
         ELSE [state |-> state, level |-> level, ret |-> ESP_OK]
    ELSE [state |-> state, level |-> level, ret |-> ESP_OK]

LedUnchanged ==
    UNCHANGED <<now, pirVars, hcVars, dhtVars, hubVars, schedVars, bootVars, remoteVars,
                waitVars, envVars, preVars, gapVars, startVars, lcdIoVars>>

\* app_main of the test application: led_state = false, led_init (gpio_config,
\* then level 0), hcsr04_init, xTaskCreate; the task sets its last value to 0
TestAppMain(init_ret) ==
    /\ t_pc = "boot"
    /\ led_state' = FALSE
    /\ led_level' = IF GpioOutputRet(LED_PIN) = ESP_OK THEN 0 ELSE led_level
    /\ t_pc' = IF GpioOutputRet(LED_PIN) = ESP_OK /\ init_ret = ESP_OK
              THEN "read" ELSE "returned"
    /\ t_last_value' = 0
    /\ led_prev' = FALSE
    /\ UNCHANGED <<t_ret, t_distance>>
    /\ LedUnchanged

\* test_hcsr04_sensor: hcsr04_read_distance; on failure the cycle ends at the
\* delay, on success distance_cm is fetched
TestRead(ret, pulse) ==
    /\ t_pc = "read"
    /\ t_ret' = ret
    /\ led_prev' = led_state
    /\ IF ret # ESP_OK
       THEN /\ t_pc' = "delay"
            /\ UNCHANGED t_distance
       ELSE /\ t_pc' = "update"
            /\ t_distance' = DistanceCm(pulse)
    /\ UNCHANGED <<led_state, led_level, t_last_value>>
    /\ LedUnchanged

\* test_hcsr04_sensor: led_update(distance_cm), whose return value is not
\* used, then the log of a change of at least 1 cm
TestUpdate ==
    /\ t_pc = "update"
    /\ led_state' = led_update(led_state, led_level, t_distance).state
    /\ led_level' = led_update(led_state, led_level, t_distance).level
    /\ t_last_value' = IF Fabs(t_distance - t_last_value) >= DISTANCE_CHANGE_THRESHOLD_CM * 1000
                        THEN t_distance ELSE t_last_value
    /\ t_pc' = "delay"
    /\ UNCHANGED <<t_ret, t_distance, led_prev>>
    /\ LedUnchanged

\* test_hcsr04_sensor: vTaskDelayUntil returns and the loop starts again
TestWake ==
    /\ t_pc = "delay"
    /\ t_pc' = "read"
    /\ UNCHANGED <<led_state, led_level, t_ret, t_distance, t_last_value, led_prev>>
    /\ LedUnchanged

NextLed ==
    \/ \E init_ret \in {ESP_OK, ESP_ERR_INVALID_ARG} : TestAppMain(init_ret)
    \/ \E ret \in {ESP_OK, ESP_ERR_TIMEOUT}, pulse \in TestPulses : TestRead(ret, pulse)
    \/ TestUpdate
    \/ TestWake

SpecLed == Init /\ [][NextLed]_vars

\* C36: at the end of a cycle of the test task the LED is on after a successful
\* reading below 30 cm, off after one above 35 cm, and as it was after a
\* reading within 30..35 cm or a failed read; led_state always equals the
\* level last written to the LED pin.
C36_LedHysteresis ==
    /\ led_level # -1 => (led_state <=> led_level = 1)
    /\ t_pc = "delay" =>
          /\ (t_ret = ESP_OK /\ t_distance < 30000) => led_state
          /\ (t_ret = ESP_OK /\ t_distance > 35000) => ~led_state
          /\ (t_ret = ESP_OK /\ t_distance >= 30000 /\ t_distance <= 35000)
                => led_state = led_prev
          /\ t_ret # ESP_OK => led_state = led_prev

\* C36 witness: the LED was turned on by a close reading and has stayed on
\* through a reading inside the band
C36_Witness ==
    /\ t_pc = "delay"
    /\ t_ret = ESP_OK
    /\ t_distance > 30000
    /\ t_distance < 35000
    /\ led_prev
    /\ led_state
    /\ led_level = 1

====
